---- MODULE Spec2Model ----
(***************************************************************************)
(* juno: a TCP proxy with SOCKSv4/4A, SOCKSv5 and HTTP providers.          *)
(*                                                                         *)
(* Spec      one SOCKS connection: the dispatcher, the v4 handler and the  *)
(*           v5 handler reading a client byte stream in arbitrary chunks.  *)
(* DialSpec  one call of Dialer::dial racing its connect attempts.         *)
(* HttpSpec  one HTTP connection: CONNECT and plain requests served in     *)
(*           turn by http::Session, and the tunnel task of a CONNECT.      *)
(* XformSpec Session::transform_request applied once and again.            *)
(* SpliceSpec one tunnel run by io::copy_bidirectional.                    *)
(* MainSpec  the program: bind_all, the accept loops, the connection       *)
(*           tasks they spawn, and the shutdown signal.                    *)
(*                                                                         *)
(* Bytes are the integers 0..255, byte strings are sequences of bytes.     *)
(***************************************************************************)
EXTENDS Integers, Sequences, FiniteSets, TLC

\* ------------------------------------------------------------------ bounds

\* longest userid of a generated SOCKSv4 request
MaxUserLen == 1
\* longest domain name of a generated request
MaxDomainLen == 2
\* largest nmethods of a generated SOCKSv5 greeting
MaxMethods == 2
\* most bytes the client sends after the end of the request frame
MaxTail == 1
\* most candidate addresses a resolution yields
MaxCands == 3

\* most requests a client sends on one HTTP connection
MaxReqs == 2
\* most header lines of a request given to the transform
MaxHeaders == 3
\* most bytes a peer of a tunnel sends before it closes
MaxSplice == 2
\* most addresses given with -l
MaxListen == 2
\* most connections accepted while the program runs
MaxConns == 2

\* ---------------------------------------------------------- byte strings

Take(s, n) == SubSeq(s, 1, n)

Drop(s, n) == SubSeq(s, n + 1, Len(s))

\* sequences over alphabet A of length at most n
RECURSIVE SeqsUpTo(_, _)
SeqsUpTo(A, n) ==
    IF n = 0 THEN {<<>>}
    ELSE LET shorter == SeqsUpTo(A, n - 1)
         IN  shorter \cup {Append(s, a) : s \in shorter, a \in A}

Contains(s, b) == \E i \in 1..Len(s) : s[i] = b

\* Buf::get_u16: big-endian
get_u16(b) == b[1] * 256 + b[2]

\* Buf::get_u32: big-endian
get_u32(b) == ((b[1] * 256 + b[2]) * 256 + b[3]) * 256 + b[4]

IsCont(x) == x >= 128 /\ x <= 191

\* String::from_utf8 accepts exactly the well-formed UTF-8 byte strings
RECURSIVE IsUtf8(_)
IsUtf8(s) ==
    IF Len(s) = 0 THEN TRUE
    ELSE LET b == s[1]
             n == Len(s)
         IN  IF b <= 127 THEN IsUtf8(Drop(s, 1))
             ELSE IF b >= 194 /\ b <= 223
                  THEN n >= 2 /\ IsCont(s[2]) /\ IsUtf8(Drop(s, 2))
             ELSE IF b >= 224 /\ b <= 239
                  THEN /\ n >= 3
                       /\ IsCont(s[2])
                       /\ (b = 224 => s[2] >= 160)
                       /\ (b = 237 => s[2] <= 159)
                       /\ IsCont(s[3])
                       /\ IsUtf8(Drop(s, 3))
             ELSE IF b >= 240 /\ b <= 244
                  THEN /\ n >= 4
                       /\ IsCont(s[2])
                       /\ (b = 240 => s[2] >= 144)
                       /\ (b = 244 => s[2] <= 143)
                       /\ IsCont(s[3])
                       /\ IsCont(s[4])
                       /\ IsUtf8(Drop(s, 4))
             ELSE FALSE

\* ----------------------------------------------------- socks::Error, Result

NeedMoreData == [kind |-> "NeedMoreData"]

Protocol(msg) == [kind |-> "Protocol", msg |-> msg]

\* Error::Io, or the io::Error of the tokio calls
Io(errkind) == [kind |-> "Io", err |-> errkind]

\* Ok(()) of a handler
OkUnit == [kind |-> "Ok"]

\* a panic unwinding out of the decoder: the connection task aborts
Panic == [kind |-> "Panic"]

\* ------------------------------------------------------- socks::SocketAddr

SocketAddr_v4(ip, port) == [tag |-> "V4", ip |-> ip, port |-> port]

SocketAddr_v6(ip, port) == [tag |-> "V6", ip |-> ip, port |-> port]

SocketAddr_raw(domain, port) == [tag |-> "Raw", domain |-> domain, port |-> port]

\* ------------------------------------------------------ socks::v4::Request

\* index of the first NUL of b, or 0 when b holds none
RECURSIVE FirstNul(_, _)
FirstNul(b, i) ==
    IF i > Len(b) THEN 0
    ELSE IF b[i] = 0 THEN i
    ELSE FirstNul(b, i + 1)

\* BufRead::read_until(0, vec): the bytes up to and including the first NUL,
\* or every remaining byte when there is none
read_until(b) == IF FirstNul(b, 1) = 0 THEN b ELSE Take(b, FirstNul(b, 1))

\* v4 Request::read_string; rest is what the buffer still holds afterwards.
\* With nothing remaining len is 0 and vec[len - 1] is out of range.
v4_read_string(b) ==
    LET vec == read_until(b)
        len == Len(vec)
    IN  IF len = 0 THEN Panic
        ELSE IF vec[len] # 0 THEN NeedMoreData
        ELSE IF ~IsUtf8(Take(vec, len - 1)) THEN Protocol("invalid utf-8")
        ELSE [kind |-> "Ok", str |-> Take(vec, len - 1), rest |-> Drop(b, len)]

\* the v4A test with the range closed at 0x100
v4_is_4a_inclusive(ip) == ip >= 1 /\ ip <= 256

\* the v4A test (1..0x100).contains(&ip)
v4_is_4a(ip) == ip >= 1 /\ ip < 256

v4_command(code) == IF code = 1 THEN "Connect" ELSE "Bind"

\* v4 Request::from_buf
v4_from_buf(b) ==
    IF Len(b) < 8 THEN NeedMoreData
    ELSE IF b[1] \notin {1, 2} THEN Protocol("illegal request")
    ELSE LET code == b[1]
             port == get_u16(SubSeq(b, 2, 3))
             ip   == get_u32(SubSeq(b, 4, 7))
             user == v4_read_string(Drop(b, 7))
         IN  IF user.kind # "Ok" THEN user
             ELSE IF v4_is_4a(ip)
                  THEN LET dom == v4_read_string(user.rest)
                       IN  IF dom.kind # "Ok" THEN dom
                           ELSE [kind |-> "Ok", cmd |-> v4_command(code),
                                 addr |-> SocketAddr_raw(dom.str, port),
                                 user |-> user.str]
                  ELSE [kind |-> "Ok", cmd |-> v4_command(code),
                        addr |-> SocketAddr_v4(ip, port),
                        user |-> user.str]

\* ------------------------------------------------------ socks::v5::Request

\* Buf::get_u128: the value is kept as its 16 big-endian octets, which is
\* what Ipv6Addr::from(u128) stores
get_u128(b) == Take(b, 16)

v5_command(cmd) ==
    IF cmd = 1 THEN "Connect" ELSE IF cmd = 2 THEN "Bind" ELSE "UdpAssociate"

\* the address part with the domain bytes received so far validated before
\* the length test
v5_address_eager(a_type, b) ==
    IF a_type = 1
    THEN IF Len(b) < 6 THEN NeedMoreData
         ELSE [kind |-> "Ok",
               addr |-> SocketAddr_v4(get_u32(Take(b, 4)), get_u16(SubSeq(b, 5, 6)))]
    ELSE IF a_type = 4
    THEN IF Len(b) < 18 THEN NeedMoreData
         ELSE [kind |-> "Ok",
               addr |-> SocketAddr_v6(get_u128(b), get_u16(SubSeq(b, 17, 18)))]
    ELSE IF a_type = 3
    THEN IF Len(b) < 1 THEN NeedMoreData
         ELSE LET len == b[1]
                  have == IF Len(b) - 1 < len THEN Len(b) - 1 ELSE len
              IN  IF ~IsUtf8(SubSeq(b, 2, have + 1))
                  THEN Protocol("invalid utf-8")
                  ELSE IF Len(b) - 1 < len + 2 THEN NeedMoreData
                  ELSE [kind |-> "Ok",
                        addr |-> SocketAddr_raw(SubSeq(b, 2, len + 1),
                                                get_u16(SubSeq(b, len + 2, len + 3)))]
    ELSE Protocol("illegal address type")

\* the address part of v5 Request::from_buf: b is what follows the address
\* type byte a_type
v5_address(a_type, b) ==
    IF a_type = 1
    THEN IF Len(b) < 6 THEN NeedMoreData
         ELSE [kind |-> "Ok",
               addr |-> SocketAddr_v4(get_u32(Take(b, 4)), get_u16(SubSeq(b, 5, 6)))]
    ELSE IF a_type = 4
    THEN IF Len(b) < 18 THEN NeedMoreData
         ELSE [kind |-> "Ok",
               addr |-> SocketAddr_v6(get_u128(b), get_u16(SubSeq(b, 17, 18)))]
    ELSE IF a_type = 3
    THEN IF Len(b) < 1 THEN NeedMoreData
         ELSE LET len == b[1]
              IN  IF Len(b) - 1 < len + 2 THEN NeedMoreData
                  ELSE IF ~IsUtf8(SubSeq(b, 2, len + 1))
                       THEN Protocol("invalid utf-8")
                  ELSE [kind |-> "Ok",
                        addr |-> SocketAddr_raw(SubSeq(b, 2, len + 1),
                                                get_u16(SubSeq(b, len + 2, len + 3)))]
    ELSE Protocol("illegal address type")

\* v5 Request::from_buf without the test of the reserved octet
v5_from_buf_any_rsv(b) ==
    IF Len(b) < 2 THEN NeedMoreData
    ELSE LET cmd == b[1]
         IN  IF cmd \notin {1, 2, 3} THEN Protocol("illegal request")
             ELSE IF Len(b) - 2 < 1 THEN NeedMoreData
             ELSE LET a == v5_address(b[3], Drop(b, 3))
                  IN  IF a.kind # "Ok" THEN a
                      ELSE [kind |-> "Ok", cmd |-> v5_command(cmd), addr |-> a.addr]

\* v5 Request::from_buf
v5_from_buf(b) ==
    IF Len(b) < 2 THEN NeedMoreData
    ELSE LET cmd == b[1]
             rsv == b[2]
         IN  IF rsv # 0 THEN Protocol("reserved octet is not 0")
             ELSE IF cmd \notin {1, 2, 3} THEN Protocol("illegal request")
             ELSE IF Len(b) - 2 < 1 THEN NeedMoreData
             ELSE LET a == v5_address(b[3], Drop(b, 3))
                  IN  IF a.kind # "Ok" THEN a
                      ELSE [kind |-> "Ok", cmd |-> v5_command(cmd), addr |-> a.addr]

\* ------------------------------------------------------------ Response

\* impl From<v4::Response> for Bytes
v4_response_bytes(res) ==
    <<0, IF res = "Granted" THEN 90 ELSE 91, 0, 0, 0, 0, 0, 0>>

\* Unsupported reported as a general failure
v5_response_code_failed(res) == IF res = "Succeeded" THEN 0 ELSE 1

v5_response_code(res) ==
    IF res = "Succeeded" THEN 0 ELSE IF res = "Failed" THEN 1 ELSE 7

\* impl From<v5::Response> for Bytes
v5_response_bytes(res) ==
    <<5, v5_response_code(res), 0, 1, 0, 0, 0, 0, 0, 0>>

\* ------------------------------------------------- the client's byte stream

\* 'h', an ill-formed byte
UserBytes == {104, 255}

\* 'h' and the two bytes of U+00E9, each ill-formed alone
DomainBytes == {104, 195, 169}

Users == SeqsUpTo(UserBytes, MaxUserLen)

Domains == SeqsUpTo(DomainBytes, MaxDomainLen)

Tails == SeqsUpTo({104}, MaxTail)

\* port 80 and port 443, big-endian
Ports == {<<0, 80>>, <<1, 187>>}

\* 0.0.0.0, 0.0.0.1, 0.0.0.255, 0.0.1.0, 127.0.0.1
V4Ips == {<<0, 0, 0, 0>>, <<0, 0, 0, 1>>, <<0, 0, 0, 255>>, <<0, 0, 1, 0>>,
          <<127, 0, 0, 1>>}

\* the bytes of a SOCKSv4 request after the version byte; the domain is
\* present exactly when the address is of the 0.0.0.x form
V4Frame(cmd, port, ip, user, domain) ==
    <<cmd>> \o port \o ip \o user \o <<0>>
        \o (IF get_u32(ip) \in 1..255 THEN domain \o <<0>> ELSE <<>>)

V4Frames ==
    UNION { IF get_u32(ip) \in 1..255
            THEN {V4Frame(c, p, ip, u, d) : c \in {1, 2}, p \in Ports,
                                            u \in Users, d \in Domains}
            ELSE {V4Frame(c, p, ip, u, <<>>) : c \in {1, 2}, p \in Ports,
                                               u \in Users}
          : ip \in V4Ips }

\* requests with an unknown command byte
V4BadFrames == {V4Frame(c, <<0, 80>>, ip, <<>>, <<104>>) :
                    c \in {0, 3}, ip \in {<<0, 0, 0, 1>>, <<127, 0, 0, 1>>}}

V4Streams == {<<4>> \o f \o t : f \in V4Frames \cup V4BadFrames, t \in Tails}

\* ::1 and 2001:db8::1
V6Ips == {<<0, 0, 0, 0, 0, 0, 0, 0, 0, 0, 0, 0, 0, 0, 0, 1>>,
          <<32, 1, 13, 184, 0, 0, 0, 0, 0, 0, 0, 0, 0, 0, 0, 1>>}

\* the address part of a SOCKSv5 request, from the address type byte on
V5Addrs ==
    {<<1>> \o ip \o p : ip \in {<<0, 0, 0, 1>>, <<127, 0, 0, 1>>}, p \in Ports}
    \cup {<<4>> \o ip \o <<1, 187>> : ip \in V6Ips}
    \cup {<<3, Len(d)>> \o d \o p : d \in Domains, p \in Ports}

\* the bytes of a SOCKSv5 request after its version byte
V5Frames == {<<c, 0>> \o a : c \in {1, 2, 3}, a \in V5Addrs}

\* requests with a non-zero reserved byte, an unknown command or an unknown
\* address type
V5BadFrames ==
    {<<c, r>> \o a : c \in {0, 1, 2, 3}, r \in {1, 255},
                     a \in {<<1, 127, 0, 0, 1, 0, 80>>, <<3, 1, 104, 0, 80>>, <<5>>}}
    \cup {<<0, 0, 1, 127, 0, 0, 1, 0, 80>>, <<1, 0, 5, 0>>, <<1, 0, 0>>}

\* the method lists of a greeting
MethodLists == SeqsUpTo({0, 2}, MaxMethods)

V5Greeting(methods) == <<Len(methods)>> \o methods

V5Streams ==
    {<<5>> \o V5Greeting(m) \o <<5>> \o f \o t :
        m \in {l \in MethodLists : Contains(l, 0)},
        f \in V5Frames \cup V5BadFrames, t \in Tails}
    \cup {<<5>> \o V5Greeting(m) \o <<5, 1, 0, 1, 127, 0, 0, 1, 0, 80>> :
            m \in MethodLists}
    \cup {<<5, 1, 0, v, 1, 0, 1, 127, 0, 0, 1, 0, 80>> : v \in {4, 0}}

\* streams that open with neither version byte
OtherStreams == {<<v, 1, 0, 80, 127, 0, 0, 1, 0>> : v \in {0, 1, 3, 6, 67, 255}}

Streams == V4Streams \cup V5Streams \cup OtherStreams

\* ------------------------------------------------------------------ state

VARIABLES
    input,      \* the bytes the client sends on the accepted stream
    pos,        \* how many of them the proxy has read off the socket
    closed,     \* the client has shut its side down: reads past pos see EOF
    pc,         \* where the connection task stands
    handler,    \* the handler the stream was handed to: "none", "v4", "v5"
    buf,        \* read_request's BytesMut
    request,    \* what the last Request::from_buf returned
    auth_req,   \* the method list of the SOCKSv5 greeting
    server,     \* Option<TcpStream> of the upstream: "None" or "Some"
    response,   \* the Response chosen for the request, "None" before that
    wrote,      \* the buffers handed to write_all / write_all_buf, in order
    out,        \* the bytes that reached the client
    connects,   \* the addresses handed to TcpStream::connect, in order
    upstream,   \* the bytes copied to the upstream
    downstream, \* the bytes of the upstream copied to the client
    ret,        \* what the connection task returned, Running before that
    bind_addr,  \* Dialer.bind_addr: "None", "V4" or "V6"
    cands,      \* what lookup_host yields for the dialed target
    dial_pc,    \* where Dialer::dial stands
    attempt,    \* the state of each dial_one future
    failed,     \* the attempts select_ok has dropped as failed, in order
    dial_ret    \* what Dialer::dial returned, Running before that

VARIABLES
    h_reqs,     \* the requests the client sends on an HTTP connection, in order
    h_pc,       \* where the HTTP connection stands
    h_served,   \* how many of them were handed to Session::call
    h_req,      \* the request the handler holds, transformed once it is
    h_addr,     \* the address it computed for the dial
    h_dials,    \* the calls of Dialer::dial: request number, address, outcome
    h_sent,     \* the requests passed to send_request, by request number
    h_resps,    \* the responses written to the client, by request number
    h_tunnels,  \* the request numbers a tunnel task was spawned for
    h_task,     \* the tunnel task: where it stands, its upstream stream,
                \* the bytes it copied each way, what it logged
    h_ret,      \* what serve_connection returned, Running before that
    t_req,      \* a request handed to transform_request
    t_out,      \* what transform_request made of it, applied once and again
    s_pc,       \* where a tunnel stands: "idle", "copy", "done"
    s_sent,     \* per direction, the bytes the reading side's peer sends before it closes
    s_copied,   \* per direction, the bytes copied so far
    s_state,    \* per direction, its TransferState
    s_shut,     \* per stream, whether its write side was shut down
    s_open,     \* per stream, whether the proxy still holds it
    s_ret,      \* what copy_bidirectional returned, Running before that
    m_args,     \* Args.listen_stream: the addresses given with -l, in order
    m_busy,     \* the addresses another process is listening on
    m_pc,       \* where main stands: "idle", "bind", "serve", "done"
    m_listeners, \* the addresses of the listeners bind_all returned, in order
    m_conns,    \* the connection tasks spawned: their listener and state
    m_ret       \* what main returned, Running before that

socks_vars == <<input, pos, closed, pc, handler, buf, request, auth_req, server,
                response, wrote, out, connects, upstream, downstream, ret>>

dial_vars == <<bind_addr, cands, dial_pc, attempt, failed, dial_ret>>

http_vars == <<h_reqs, h_pc, h_served, h_req, h_addr, h_dials, h_sent, h_resps,
               h_tunnels, h_task, h_ret>>

xform_vars == <<t_req, t_out>>

splice_vars == <<s_pc, s_sent, s_copied, s_state, s_shut, s_open, s_ret>>

main_vars == <<m_args, m_busy, m_pc, m_listeners, m_conns, m_ret>>

vars == <<socks_vars, dial_vars, http_vars, xform_vars, splice_vars, main_vars>>

\* what a step of the SOCKS connection, of the dial, of the HTTP connection
\* leaves alone
beside_socks == <<dial_vars, http_vars, xform_vars, splice_vars, main_vars>>

beside_dial == <<socks_vars, http_vars, xform_vars, splice_vars, main_vars>>

beside_http == <<socks_vars, dial_vars, xform_vars, splice_vars, main_vars>>

beside_xform == <<socks_vars, dial_vars, http_vars, splice_vars, main_vars>>

beside_splice == <<socks_vars, dial_vars, http_vars, xform_vars, main_vars>>

beside_main == <<socks_vars, dial_vars, http_vars, xform_vars, splice_vars>>

Running == [kind |-> "Running"]

NoRequest == [kind |-> "None"]

\* the connection task has not been spawned
SocksIdle ==
    /\ input = <<>>
    /\ pos = 0
    /\ closed = FALSE
    /\ pc = "idle"
    /\ handler = "none"
    /\ buf = <<>>
    /\ request = NoRequest
    /\ auth_req = <<>>
    /\ server = "None"
    /\ response = "None"
    /\ wrote = <<>>
    /\ out = <<>>
    /\ connects = <<>>
    /\ upstream = <<>>
    /\ downstream = <<>>
    /\ ret = Running

\* no dial is under way
DialIdle ==
    /\ bind_addr = "None"
    /\ cands = <<>>
    /\ dial_pc = "idle"
    /\ attempt = <<>>
    /\ failed = <<>>
    /\ dial_ret = Running

\* no tunnel task has been spawned
NoTask == [pc |-> "none", server |-> "None", copied |-> [up |-> 0, down |-> 0],
           log |-> <<>>]

\* no HTTP connection is being served
HttpIdle ==
    /\ h_reqs = <<>>
    /\ h_pc = "idle"
    /\ h_served = 0
    /\ h_req = NoRequest
    /\ h_addr = NoRequest
    /\ h_dials = <<>>
    /\ h_sent = <<>>
    /\ h_resps = <<>>
    /\ h_tunnels = <<>>
    /\ h_task = NoTask
    /\ h_ret = Running

\* transform_request is not being tried
XformIdle ==
    /\ t_req = NoRequest
    /\ t_out = <<>>

\* the two directions of a tunnel between the client a and the upstream b;
\* a direction reads one stream and writes the other
Directions == {"a_to_b", "b_to_a"}

Streams2 == {"a", "b"}

\* no tunnel is running
SpliceIdle ==
    /\ s_pc = "idle"
    /\ s_sent = [d \in Directions |-> 0]
    /\ s_copied = [d \in Directions |-> 0]
    /\ s_state = [d \in Directions |-> "Running"]
    /\ s_shut = [x \in Streams2 |-> FALSE]
    /\ s_open = [x \in Streams2 |-> FALSE]
    /\ s_ret = Running

\* the program is not modelled as a whole
MainIdle ==
    /\ m_args = <<>>
    /\ m_busy = {}
    /\ m_pc = "idle"
    /\ m_listeners = <<>>
    /\ m_conns = <<>>
    /\ m_ret = Running

\* a client has been accepted and its task spawned
SocksInit ==
    /\ input \in Streams
    /\ pos = 0
    /\ closed = FALSE
    /\ pc = "dispatch"
    /\ handler = "none"
    /\ buf = <<>>
    /\ request = NoRequest
    /\ auth_req = <<>>
    /\ server = "None"
    /\ response = "None"
    /\ wrote = <<>>
    /\ out = <<>>
    /\ connects = <<>>
    /\ upstream = <<>>
    /\ downstream = <<>>
    /\ ret = Running

Init == SocksInit /\ DialIdle /\ HttpIdle /\ XformIdle /\ SpliceIdle /\ MainIdle

\* ----------------------------------------------------------- the client

\* n more bytes have arrived
Available(n) == ~closed /\ pos + n <= Len(input)

\* the client shuts down; what it has not sent by now never arrives
ClientClose ==
    /\ pc \notin {"idle", "done"}
    /\ ~closed
    /\ closed' = TRUE
    /\ UNCHANGED <<input, handler, pos, pc, buf, request, auth_req, server, response,
                   wrote, out, connects, upstream, downstream, ret>>
    /\ UNCHANGED beside_socks

\* the task ends with r
Return(r) == pc' = "done" /\ ret' = r

UnexpectedEof == Io("UnexpectedEof")

\* --------------------------------------------------------- the dispatcher

\* the match with every version but 4 taken for 5
Route_lenient(ver) == IF ver = 4 THEN "v4" ELSE "v5"

\* the match on the version byte
Route(ver) == IF ver = 4 THEN "v4" ELSE IF ver = 5 THEN "v5" ELSE "none"

\* where a handler starts
Entry(h) == IF h = "v4" THEN "v4_read" ELSE IF h = "v5" THEN "v5_nmethods" ELSE "done"

\* Service::call / socks::handle_request: read_u8 and match
Dispatch ==
    /\ pc = "dispatch"
    /\ \/ /\ closed
          /\ Return(UnexpectedEof)
          /\ UNCHANGED <<pos, handler>>
       \/ /\ Available(1)
          /\ pos' = pos + 1
          /\ handler' = Route(input[pos + 1])
          /\ pc' = Entry(handler')
          /\ ret' = IF handler' = "none"
                    THEN Protocol("illegal protocol version")
                    ELSE ret
    /\ UNCHANGED <<input, closed, buf, request, auth_req, server, response,
                   wrote, out, connects, upstream, downstream>>
    /\ UNCHANGED beside_socks

\* the upstream stream once the task's locals are dropped
Dropped(sv) == IF sv = "Some" THEN "Closed" ELSE sv

\* io::copy_bidirectional(&mut client, &mut server); the client to
\* upstream side reads the client socket from where read_request stopped
Splice ==
    \/ /\ \E n \in 1..(Len(input) - pos) :
             /\ ~closed
             /\ pos' = pos + n
             /\ upstream' = upstream \o SubSeq(input, pos + 1, pos + n)
          /\ UNCHANGED <<pc, ret, server, downstream>>
       \* upstream to client side: a byte the upstream sent
    \/ /\ Len(downstream) < MaxTail
          /\ downstream' = Append(downstream, 104)
          /\ UNCHANGED <<pc, ret, server, pos, upstream>>
       \* both directions reached EOF
    \/ /\ closed
          /\ Return(OkUnit)
          /\ server' = Dropped(server)
          /\ UNCHANGED <<pos, upstream, downstream>>
       \* an I/O error on either stream
    \/ /\ Return(Io("copy_bidirectional"))
          /\ server' = Dropped(server)
          /\ UNCHANGED <<pos, upstream, downstream>>

\* ------------------------------------------------------ socks::v4 handler

\* v4 read_request: one turn of the loop, read_buf then Request::from_buf
\* on a copy of everything read so far
V4Read ==
    /\ pc = "v4_read"
    /\ \/ /\ closed
          /\ Return(UnexpectedEof)
          /\ UNCHANGED <<pos, buf, request>>
       \/ \E n \in 1..(Len(input) - pos) :
             LET b == buf \o SubSeq(input, pos + 1, pos + n)
                 r == v4_from_buf(b)
             IN  /\ ~closed
                 /\ pos' = pos + n
                 /\ buf' = b
                 /\ request' = r
                 /\ pc' = IF r.kind = "Ok" THEN "v4_command"
                          ELSE IF r.kind = "NeedMoreData" THEN "v4_read"
                          ELSE "done"
                 /\ ret' = IF r.kind \in {"Ok", "NeedMoreData"} THEN ret ELSE r
    /\ UNCHANGED <<input, handler, closed, auth_req, server, response, wrote, out,
                   connects, upstream, downstream>>
    /\ UNCHANGED beside_socks

\* v4 handle_request, Request::Connect: TcpStream::connect succeeds or fails
V4Connect ==
    /\ pc = "v4_command"
    /\ request.cmd = "Connect"
    /\ connects' = Append(connects, request.addr)
    /\ \E ok \in BOOLEAN :
          /\ server' = IF ok THEN "Some" ELSE "None"
          /\ response' = IF ok THEN "Granted" ELSE "Rejected"
    /\ pc' = "v4_reply"
    /\ UNCHANGED <<input, handler, pos, closed, buf, request, auth_req, wrote, out,
                   upstream, downstream, ret>>
    /\ UNCHANGED beside_socks

\* Request::Bind answered as granted
V4Bind_granted ==
    /\ pc = "v4_command"
    /\ request.cmd = "Bind"
    /\ server' = "None"
    /\ response' = "Granted"
    /\ pc' = "v4_reply"
    /\ UNCHANGED <<input, handler, pos, closed, buf, request, auth_req, wrote, out,
                   connects, upstream, downstream, ret>>
    /\ UNCHANGED beside_socks

\* v4 handle_request, Request::Bind
V4Bind ==
    /\ pc = "v4_command"
    /\ request.cmd = "Bind"
    /\ server' = "None"
    /\ response' = "Rejected"
    /\ pc' = "v4_reply"
    /\ UNCHANGED <<input, handler, pos, closed, buf, request, auth_req, wrote, out,
                   connects, upstream, downstream, ret>>
    /\ UNCHANGED beside_socks

\* v4 handle_request: write_all_buf of the reply, then splice or return
V4Reply ==
    /\ pc = "v4_reply"
    /\ wrote' = Append(wrote, v4_response_bytes(response))
    /\ \/ /\ out' = out \o v4_response_bytes(response)
          /\ IF server = "Some"
             THEN pc' = "v4_splice" /\ UNCHANGED <<ret, server>>
             ELSE Return(OkUnit) /\ UNCHANGED server
       \/ /\ Return(Io("write"))
          /\ server' = Dropped(server)
          /\ out' = out
    /\ UNCHANGED <<input, handler, pos, closed, buf, request, auth_req, response,
                   connects, upstream, downstream>>
    /\ UNCHANGED beside_socks

\* v4 handle_request: copy_bidirectional
V4Splice ==
    /\ pc = "v4_splice"
    /\ Splice
    /\ UNCHANGED <<input, handler, closed, buf, request, auth_req, response, wrote,
                   out, connects>>
    /\ UNCHANGED beside_socks

\* ------------------------------------------------------ socks::v5 handler

\* v5 handle_request: read_u8 of nmethods
V5ReadNMethods ==
    /\ pc = "v5_nmethods"
    /\ \/ /\ closed
          /\ Return(UnexpectedEof)
          /\ UNCHANGED <<pos, auth_req>>
       \/ /\ Available(1)
          /\ pos' = pos + 1
          \* vec![0; len]
          /\ auth_req' = [i \in 1..input[pos + 1] |-> 0]
          /\ pc' = "v5_methods"
          /\ ret' = ret
    /\ UNCHANGED <<input, handler, closed, buf, request, server, response, wrote, out,
                   connects, upstream, downstream>>
    /\ UNCHANGED beside_socks

\* v5 handle_request: read_exact of the nmethods method bytes
V5ReadMethods ==
    /\ pc = "v5_methods"
    /\ \/ /\ closed
          /\ Len(auth_req) > 0
          /\ Return(UnexpectedEof)
          /\ UNCHANGED <<pos, auth_req>>
       \/ /\ Available(Len(auth_req)) \/ Len(auth_req) = 0
          /\ pos' = pos + Len(auth_req)
          /\ auth_req' = SubSeq(input, pos + 1, pos + Len(auth_req))
          /\ pc' = "v5_select"
          /\ ret' = ret
    /\ UNCHANGED <<input, handler, closed, buf, request, server, response, wrote, out,
                   connects, upstream, downstream>>
    /\ UNCHANGED beside_socks

\* only the first method looked at
v5_accepts_first(methods) == Len(methods) > 0 /\ methods[1] = 0

\* auth_req.contains(&0x00)
v5_accepts(methods) == Contains(methods, 0)

\* the method selection message
v5_method_reply(methods) == IF v5_accepts(methods) THEN <<5, 0>> ELSE <<5, 255>>

\* v5 handle_request: the method selection reply; without the no-auth
\* method the handler returns Ok(()) after it
V5Select ==
    /\ pc = "v5_select"
    /\ wrote' = Append(wrote, v5_method_reply(auth_req))
    /\ \/ /\ out' = out \o v5_method_reply(auth_req)
          /\ IF v5_accepts(auth_req)
             THEN pc' = "v5_version" /\ ret' = ret
             ELSE Return(OkUnit)
       \/ /\ Return(Io("write"))
          /\ out' = out
    /\ UNCHANGED <<input, handler, pos, closed, buf, request, auth_req, server,
                   response, connects, upstream, downstream>>
    /\ UNCHANGED beside_socks

\* v5 read_request: read_u8 of the request's version byte
V5ReadVersion ==
    /\ pc = "v5_version"
    /\ \/ /\ closed
          /\ Return(UnexpectedEof)
          /\ pos' = pos
       \/ /\ Available(1)
          /\ pos' = pos + 1
          /\ IF input[pos + 1] # 5
             THEN Return(Protocol("illegal version number"))
             ELSE pc' = "v5_read" /\ ret' = ret
    /\ UNCHANGED <<input, handler, closed, buf, request, auth_req, server, response,
                   wrote, out, connects, upstream, downstream>>
    /\ UNCHANGED beside_socks

\* v5 read_request: one turn of the loop, read_buf then Request::from_buf
\* on a copy of everything read so far
V5Read ==
    /\ pc = "v5_read"
    /\ \/ /\ closed
          /\ Return(UnexpectedEof)
          /\ UNCHANGED <<pos, buf, request>>
       \/ \E n \in 1..(Len(input) - pos) :
             LET b == buf \o SubSeq(input, pos + 1, pos + n)
                 r == v5_from_buf(b)
             IN  /\ ~closed
                 /\ pos' = pos + n
                 /\ buf' = b
                 /\ request' = r
                 /\ pc' = IF r.kind = "Ok" THEN "v5_command"
                          ELSE IF r.kind = "NeedMoreData" THEN "v5_read"
                          ELSE "done"
                 /\ ret' = IF r.kind \in {"Ok", "NeedMoreData"} THEN ret ELSE r
    /\ UNCHANGED <<input, handler, closed, auth_req, server, response, wrote, out,
                   connects, upstream, downstream>>
    /\ UNCHANGED beside_socks

\* v5 handle_request, Request::Connect: TcpStream::connect succeeds or fails
V5Connect ==
    /\ pc = "v5_command"
    /\ request.cmd = "Connect"
    /\ connects' = Append(connects, request.addr)
    /\ \E ok \in BOOLEAN :
          /\ server' = IF ok THEN "Some" ELSE "None"
          /\ response' = IF ok THEN "Succeeded" ELSE "Failed"
    /\ pc' = "v5_reply"
    /\ UNCHANGED <<input, handler, pos, closed, buf, request, auth_req, wrote, out,
                   upstream, downstream, ret>>
    /\ UNCHANGED beside_socks

\* v5 handle_request, Request::Bind | Request::UdpAssociate
V5Unsupported ==
    /\ pc = "v5_command"
    /\ request.cmd \in {"Bind", "UdpAssociate"}
    /\ server' = "None"
    /\ response' = "Unsupported"
    /\ pc' = "v5_reply"
    /\ UNCHANGED <<input, handler, pos, closed, buf, request, auth_req, wrote, out,
                   connects, upstream, downstream, ret>>
    /\ UNCHANGED beside_socks

\* a reply whose failed write leaves the upstream stream open
V5Reply_leak ==
    /\ pc = "v5_reply"
    /\ wrote' = Append(wrote, v5_response_bytes(response))
    /\ \/ /\ out' = out \o v5_response_bytes(response)
          /\ IF server = "Some"
             THEN pc' = "v5_splice" /\ UNCHANGED <<ret, server>>
             ELSE Return(OkUnit) /\ UNCHANGED server
       \/ /\ Return(Io("write"))
          /\ server' = server
          /\ out' = out
    /\ UNCHANGED <<input, handler, pos, closed, buf, request, auth_req, response,
                   connects, upstream, downstream>>
    /\ UNCHANGED beside_socks

\* v5 handle_request: write_all_buf of the reply, then splice or return
V5Reply ==
    /\ pc = "v5_reply"
    /\ wrote' = Append(wrote, v5_response_bytes(response))
    /\ \/ /\ out' = out \o v5_response_bytes(response)
          /\ IF server = "Some"
             THEN pc' = "v5_splice" /\ UNCHANGED <<ret, server>>
             ELSE Return(OkUnit) /\ UNCHANGED server
       \/ /\ Return(Io("write"))
          /\ server' = Dropped(server)
          /\ out' = out
    /\ UNCHANGED <<input, handler, pos, closed, buf, request, auth_req, response,
                   connects, upstream, downstream>>
    /\ UNCHANGED beside_socks

\* v5 handle_request: copy_bidirectional
V5Splice ==
    /\ pc = "v5_splice"
    /\ Splice
    /\ UNCHANGED <<input, handler, closed, buf, request, auth_req, response, wrote,
                   out, connects>>
    /\ UNCHANGED beside_socks

\* ------------------------------------------------- one SOCKS connection

Next ==
    \/ ClientClose
    \/ Dispatch
    \/ V4Read
    \/ V4Connect
    \/ V4Bind
    \/ V4Reply
    \/ V4Splice
    \/ V5ReadNMethods
    \/ V5ReadMethods
    \/ V5Select
    \/ V5ReadVersion
    \/ V5Read
    \/ V5Connect
    \/ V5Unsupported
    \/ V5Reply
    \/ V5Splice

Spec == Init /\ [][Next]_vars

TypeOK ==
    /\ pos \in 0..Len(input)
    /\ closed \in BOOLEAN
    /\ server \in {"None", "Some", "Closed"}
    /\ handler \in {"none", "v4", "v5"}
    /\ (pc = "done") = (ret # Running)

\* ------------------------------------------------------------- the Dialer

Families == {"V4", "V6"}

\* a resolved address: its family, and whether a connect to it succeeds
Candidates == [family : Families, accepts : BOOLEAN]

\* what lookup_host can yield
Resolutions == UNION {[1..n -> Candidates] : n \in 0..MaxCands}

\* Dialer::dial has been called
DialCalled ==
    /\ bind_addr \in {"None"} \cup Families
    /\ cands \in Resolutions
    /\ dial_pc = "lookup"
    /\ attempt = <<>>
    /\ failed = <<>>
    /\ dial_ret = Running

\* future::select_ok(dials): it asserts that the iterator is not empty
select_ok(n) == IF n = 0 THEN "panic" ELSE "select"

\* dial: lookup_host(host).await?, then select_ok over the dial_one futures
DialLookup ==
    /\ dial_pc = "lookup"
    /\ \/ /\ dial_pc' = "done"
          /\ dial_ret' = Io("lookup_host")
          /\ attempt' = attempt
       \/ /\ select_ok(Len(cands)) = "panic"
          /\ dial_pc' = "done"
          /\ dial_ret' = Panic
          /\ attempt' = attempt
       \/ /\ select_ok(Len(cands)) = "select"
          /\ dial_pc' = "select"
          /\ dial_ret' = dial_ret
          /\ attempt' = [i \in 1..Len(cands) |-> "new"]
    /\ UNCHANGED <<bind_addr, cands, failed>>
    /\ UNCHANGED beside_dial

\* dial_one up to its await: TcpSocket::new_v4 / new_v6 by the candidate's
\* family, then bind when bind_addr is set, which the system refuses for an
\* address of the other family, then the connect is under way
dial_one(bind, cand) ==
    IF bind # "None" /\ bind # cand.family THEN "err" ELSE "connecting"

\* the first poll of select_ok polls every dial_one future once
DialStart ==
    /\ dial_pc = "select"
    /\ \E i \in 1..Len(attempt) : attempt[i] = "new"
    /\ attempt' = [i \in 1..Len(attempt) |->
                      IF attempt[i] = "new" THEN dial_one(bind_addr, cands[i])
                      ELSE attempt[i]]
    /\ UNCHANGED <<bind_addr, cands, dial_pc, failed, dial_ret>>
    /\ UNCHANGED beside_dial

\* sock.connect(addr) of attempt i completes with a stream
DialConnected(i) ==
    /\ dial_pc = "select"
    /\ attempt[i] = "connecting"
    /\ cands[i].accepts
    /\ attempt' = [attempt EXCEPT ![i] = "ok"]
    /\ UNCHANGED <<bind_addr, cands, dial_pc, failed, dial_ret>>
    /\ UNCHANGED beside_dial

\* sock.connect(addr) of attempt i completes with an error
DialRefused(i) ==
    /\ dial_pc = "select"
    /\ attempt[i] = "connecting"
    /\ ~cands[i].accepts
    /\ attempt' = [attempt EXCEPT ![i] = "err"]
    /\ UNCHANGED <<bind_addr, cands, dial_pc, failed, dial_ret>>
    /\ UNCHANGED beside_dial

\* the futures select_ok still holds
Inner(att) == {i \in 1..Len(att) : att[i] \in {"new", "connecting", "ok", "err"}}

Ready(att) == {i \in 1..Len(att) : att[i] \in {"ok", "err"}}

Min(S) == CHOOSE x \in S : \A y \in S : x <= y

\* a poll that returns the first ready future whatever its result
select_ok_poll_first(att, fl) ==
    IF Ready(att) = {} THEN [attempt |-> att, failed |-> fl, ret |-> Running]
    ELSE LET i == Min(Ready(att))
         IN  [attempt |-> [j \in 1..Len(att) |->
                              IF j = i THEN (IF att[i] = "ok" THEN "won" ELSE "failed")
                              ELSE IF j \in Inner(att) THEN "cancelled"
                              ELSE att[j]],
              failed  |-> IF att[i] = "ok" THEN fl ELSE Append(fl, i),
              ret     |-> IF att[i] = "ok" THEN [kind |-> "Ok", stream |-> i]
                          ELSE Io(<<"dial_one", i>>)]

\* a poll that keeps the error of the first future to fail
RECURSIVE select_ok_poll_first_err(_, _)
select_ok_poll_first_err(att, fl) ==
    IF Ready(att) = {} THEN [attempt |-> att, failed |-> fl, ret |-> Running]
    ELSE LET i == Min(Ready(att))
         IN  IF att[i] = "ok"
             THEN [attempt |-> [j \in 1..Len(att) |->
                                   IF j = i THEN "won"
                                   ELSE IF j \in Inner(att) THEN "cancelled"
                                   ELSE att[j]],
                   failed  |-> fl,
                   ret     |-> [kind |-> "Ok", stream |-> i]]
             ELSE LET rest == [att EXCEPT ![i] = "failed"]
                  IN  IF Inner(rest) = {}
                      THEN [attempt |-> rest, failed |-> Append(fl, i),
                            ret |-> Io(<<"dial_one", Append(fl, i)[1]>>)]
                      ELSE select_ok_poll_first_err(rest, Append(fl, i))

\* a poll that returns the winner and leaves the other futures alive
RECURSIVE select_ok_poll_keep(_, _)
select_ok_poll_keep(att, fl) ==
    IF Ready(att) = {} THEN [attempt |-> att, failed |-> fl, ret |-> Running]
    ELSE LET i == Min(Ready(att))
         IN  IF att[i] = "ok"
             THEN [attempt |-> [att EXCEPT ![i] = "won"],
                   failed  |-> fl,
                   ret     |-> [kind |-> "Ok", stream |-> i]]
             ELSE LET rest == [att EXCEPT ![i] = "failed"]
                  IN  IF Inner(rest) = {}
                      THEN [attempt |-> rest, failed |-> Append(fl, i),
                            ret |-> Io(<<"dial_one", i>>)]
                      ELSE select_ok_poll_keep(rest, Append(fl, i))

\* SelectOk::poll: take the first ready future in index order; Ok returns
\* it and drops the rest, Err removes it and returns it only when it was
\* the last future, otherwise look again; nothing ready is Pending
RECURSIVE select_ok_poll(_, _)
select_ok_poll(att, fl) ==
    IF Ready(att) = {} THEN [attempt |-> att, failed |-> fl, ret |-> Running]
    ELSE LET i == Min(Ready(att))
         IN  IF att[i] = "ok"
             THEN [attempt |-> [j \in 1..Len(att) |->
                                   IF j = i THEN "won"
                                   ELSE IF j \in Inner(att) THEN "cancelled"
                                   ELSE att[j]],
                   failed  |-> fl,
                   ret     |-> [kind |-> "Ok", stream |-> i]]
             ELSE LET rest == [att EXCEPT ![i] = "failed"]
                  IN  IF Inner(rest) = {}
                      THEN [attempt |-> rest, failed |-> Append(fl, i),
                            ret |-> Io(<<"dial_one", i>>)]
                      ELSE select_ok_poll(rest, Append(fl, i))

\* the task is woken and select_ok polled
DialPoll ==
    /\ dial_pc = "select"
    /\ \A i \in 1..Len(attempt) : attempt[i] # "new"
    /\ Ready(attempt) # {}
    /\ LET r == select_ok_poll(attempt, failed)
       IN  /\ attempt' = r.attempt
           /\ failed' = r.failed
           /\ dial_ret' = r.ret
           /\ dial_pc' = IF r.ret = Running THEN "select" ELSE "done"
    /\ UNCHANGED <<bind_addr, cands>>
    /\ UNCHANGED beside_dial

DialNext ==
    \/ DialLookup
    \/ DialStart
    \/ \E i \in 1..Len(attempt) : DialConnected(i)
    \/ \E i \in 1..Len(attempt) : DialRefused(i)
    \/ DialPoll

\* ------------------------------------------------------ one call of dial

\* The executor polls a woken task and the system ends every connect, by
\* success, refusal or timeout: a dial that can move does move.
DialInit == DialCalled /\ SocksIdle /\ HttpIdle /\ XformIdle /\ SpliceIdle /\ MainIdle

DialSpec == DialInit /\ [][DialNext]_vars /\ WF_vars(DialNext)

\* ------------------------------------------------------------- http::Uri

\* Option<T>: None is the empty sequence, Some(x) the sequence of x alone
None == <<>>

Some(x) == <<x>>

\* a Uri holds a scheme, an authority and a path-and-query, each of which
\* may be empty; an authority is a host and an optional port
NoAuthority == [host |-> "", port |-> None]

\* Uri::authority(): None when the authority is empty
uri_authority(u) == IF u.authority.host = "" THEN None ELSE Some(u.authority)

\* Uri::path_and_query(): the authority form, an authority with no scheme,
\* has none
uri_path_and_query(u) ==
    IF u.scheme # "" \/ u.authority.host = "" THEN Some(u.path_and_query) ELSE None

\* impl From<PathAndQuery> for Uri
uri_from_path_and_query(pq) ==
    [scheme |-> "", authority |-> NoAuthority, path_and_query |-> pq]

\* Uri::default(): the Uri "/"
uri_default == uri_from_path_and_query("/")

\* port taken when the authority names none
DefaultPort == 80

\* ------------------------------------------------------- http::HeaderMap

\* HeaderName of a field name as written: names compare without case
HeaderName(n) ==
    IF n \in {"Proxy-Connection", "proxy-connection", "PROXY-CONNECTION"}
    THEN "proxy-connection"
    ELSE IF n \in {"Proxy-Authorization", "proxy-authorization"}
    THEN "proxy-authorization"
    ELSE IF n = "Host" THEN "host"
    ELSE IF n = "Accept" THEN "accept"
    ELSE n

\* the index of the entry of name in map, 0 without one
RECURSIVE header_find(_, _, _)
header_find(map, name, i) ==
    IF i > Len(map) THEN 0
    ELSE IF map[i].name = name THEN i
    ELSE header_find(map, name, i + 1)

\* HeaderMap::append of a field line: a HeaderMap is a list of entries in
\* the order the names were first seen, each holding the values of its name
\* in order; with preserve_header_case the name as written stays with the
\* value
header_append(map, line) ==
    LET i == header_find(map, HeaderName(line[1]), 1)
    IN  IF i = 0
        THEN Append(map, [name |-> HeaderName(line[1]), values |-> <<line>>])
        ELSE [map EXCEPT ![i].values = Append(@, line)]

\* the HeaderMap of a request as the server connection parses it
RECURSIVE header_map(_)
header_map(lines) ==
    IF lines = <<>> THEN <<>>
    ELSE header_append(header_map(Take(lines, Len(lines) - 1)), lines[Len(lines)])

\* a removal that takes the first value of the name only
header_remove_one_value(map, name) ==
    LET i == header_find(map, name, 1)
        n == Len(map)
    IN  IF i = 0 THEN map
        ELSE IF Len(map[i].values) > 1
        THEN [map EXCEPT ![i].values = Drop(@, 1)]
        ELSE IF i = n THEN Take(map, n - 1)
        ELSE [Take(map, n - 1) EXCEPT ![i] = map[n]]

\* HeaderMap::remove: the entry goes with all its values; the entry list
\* is a Vec and the entry leaves it by swap_remove, the last entry taking
\* its place
header_remove(map, name) ==
    LET i == header_find(map, name, 1)
        n == Len(map)
    IN  IF i = 0 THEN map
        ELSE IF i = n THEN Take(map, n - 1)
        ELSE [Take(map, n - 1) EXCEPT ![i] = map[n]]

\* the field lines of a HeaderMap in iteration order
RECURSIVE header_lines(_)
header_lines(map) ==
    IF map = <<>> THEN <<>>
    ELSE map[1].values \o header_lines(Drop(map, 1))

\* ---------------------------------------------- http::Session, the transform

PROXY_CONNECTION == "proxy-connection"

PROXY_AUTHORIZATION == "proxy-authorization"

\* a transform that leaves an authority-form target empty
transform_uri_empty(u) ==
    IF uri_path_and_query(u) # None
    THEN uri_from_path_and_query(uri_path_and_query(u)[1])
    ELSE uri_from_path_and_query("")

\* transform_request, the target:
\* path_and_query().map(Clone::clone).map(Into::into).unwrap_or_default()
transform_uri(u) ==
    IF uri_path_and_query(u) # None
    THEN uri_from_path_and_query(uri_path_and_query(u)[1])
    ELSE uri_default

\* a transform that removes Proxy-Connection alone
transform_headers_one(map) == header_remove(map, PROXY_CONNECTION)

\* transform_request, the headers
transform_headers(map) ==
    header_remove(header_remove(map, PROXY_CONNECTION), PROXY_AUTHORIZATION)

\* Session::transform_request
transform_request(req) ==
    [req EXCEPT !.uri = transform_uri(req.uri),
                !.headers = transform_headers(req.headers)]

\* ------------------------------------------------- the HTTP client's requests

HttpMethods == {"CONNECT", "GET"}

\* h:443 and h in authority form, http://h/p and http://h:8080/p?q in
\* absolute form, /p in origin form
HttpUris ==
    { [scheme |-> "", authority |-> [host |-> "h", port |-> Some(443)],
       path_and_query |-> ""],
      [scheme |-> "", authority |-> [host |-> "h", port |-> None],
       path_and_query |-> ""],
      [scheme |-> "http", authority |-> [host |-> "h", port |-> None],
       path_and_query |-> "/p"],
      [scheme |-> "http", authority |-> [host |-> "h", port |-> Some(8080)],
       path_and_query |-> "/p?q"],
      [scheme |-> "", authority |-> NoAuthority, path_and_query |-> "/p"] }

HttpHeaders ==
    { header_map(<< <<"Host", "h">> >>),
      header_map(<< <<"Proxy-Connection", "keep-alive">>, <<"Host", "h">> >>) }

HttpRequests ==
    [method : HttpMethods, uri : HttpUris, headers : HttpHeaders, body : {""}]

\* ------------------------------------------------------ http::Session

\* the server connection has been given the accepted stream
HttpAccepted ==
    /\ h_reqs \in UNION {[1..n -> HttpRequests] : n \in 1..MaxReqs}
    /\ h_pc = "read"
    /\ h_served = 0
    /\ h_req = NoRequest
    /\ h_addr = NoRequest
    /\ h_dials = <<>>
    /\ h_sent = <<>>
    /\ h_resps = <<>>
    /\ h_tunnels = <<>>
    /\ h_task = NoTask
    /\ h_ret = Running

\* Response::builder().status(..).body(..), and who made the response
Response(status, body, by) == [status |-> status, body |-> body, by |-> by]

\* empty(), full(chunk)
empty == ""

full(chunk) == chunk

\* the service future ends with Ok(res): the connection writes res to the
\* client and reads on
Respond(res) ==
    /\ h_resps' = Append(h_resps, [req |-> h_served, res |-> res])
    /\ h_pc' = "read"
    /\ h_ret' = h_ret

\* the service future ends with an error or a panic: the connection ends
\* with it and writes nothing
Abort(r) ==
    /\ h_pc' = "done"
    /\ h_ret' = r
    /\ h_resps' = h_resps

\* Service<Request<Incoming>>::call: the connection hands the next request
\* to handle_connect or handle_request; when the client has sent all it had
\* and closes, the connection ends
HRead ==
    /\ h_pc = "read"
    /\ \/ /\ h_served < Len(h_reqs)
          /\ h_served' = h_served + 1
          /\ h_req' = h_reqs[h_served + 1]
          /\ h_pc' = IF h_reqs[h_served + 1].method = "CONNECT"
                     THEN "connect" ELSE "request"
          /\ h_ret' = h_ret
       \/ /\ h_served = Len(h_reqs)
          /\ h_pc' = "done"
          /\ h_ret' = OkUnit
          /\ UNCHANGED <<h_served, h_req>>
    /\ UNCHANGED <<h_reqs, h_addr, h_dials, h_sent, h_resps, h_tunnels, h_task>>
    /\ UNCHANGED beside_http

\* Authority::to_string: the host, and the port when there is one
authority_to_string(a) == [host |-> a.host, port |-> a.port]

\* what Dialer::dial(addr) can end with: an address string without a port
\* is refused by lookup_host; otherwise a stream, the error of the
\* resolution, the error of the last attempt, or the panic of select_ok
DialOutcomes(addr) ==
    IF addr.port = None THEN {Io("lookup_host")}
    ELSE {[kind |-> "Ok"], Io("lookup_host"), Io("dial_one"), Panic}

\* tokio::task::spawn of the tunnel task: it owns the dialed stream and
\* awaits hyper::upgrade::on(req)
Spawned == [pc |-> "upgrade", server |-> "Some", copied |-> [up |-> 0, down |-> 0],
            log |-> <<>>]

\* handle_connect up to the dial
HConnect ==
    /\ h_pc = "connect"
    /\ IF uri_authority(h_req.uri) = None
       THEN /\ Respond(Response(400, full("CONNECT must be to a socket address"),
                                "proxy"))
            /\ h_addr' = h_addr
       ELSE /\ h_addr' = authority_to_string(uri_authority(h_req.uri)[1])
            /\ h_pc' = "connect_dial"
            /\ UNCHANGED <<h_resps, h_ret>>
    /\ UNCHANGED <<h_reqs, h_served, h_req, h_dials, h_sent, h_tunnels, h_task>>
    /\ UNCHANGED beside_http

\* a handle_connect that answers 200 whatever the dial returned
HConnectDial_always_ok ==
    /\ h_pc = "connect_dial"
    /\ \E r \in DialOutcomes(h_addr) :
          /\ h_dials' = Append(h_dials, [req |-> h_served, addr |-> h_addr, ret |-> r])
          /\ h_tunnels' = Append(h_tunnels, h_served)
          /\ h_task' = Spawned
          /\ h_resps' = Append(h_resps, [req |-> h_served,
                                         res |-> Response(200, empty, "proxy")])
          /\ h_pc' = "done"
          /\ h_ret' = OkUnit
    /\ UNCHANGED <<h_reqs, h_served, h_req, h_addr, h_sent>>
    /\ UNCHANGED beside_http

\* handle_connect from the dial on: 502 with the error's text, or the
\* tunnel task is spawned and 200 returned, after which the connection is
\* handed over to the upgrade and serves no further request
HConnectDial ==
    /\ h_pc = "connect_dial"
    /\ \E r \in DialOutcomes(h_addr) :
          /\ h_dials' = Append(h_dials, [req |-> h_served, addr |-> h_addr, ret |-> r])
          /\ \/ /\ r.kind = "Io"
                /\ Respond(Response(502, full(r.err), "proxy"))
                /\ h_tunnels' = h_tunnels
                /\ h_task' = h_task
             \/ /\ r.kind = "Panic"
                /\ Abort(Panic)
                /\ h_tunnels' = h_tunnels
                /\ h_task' = h_task
             \/ /\ r.kind = "Ok"
                /\ h_tunnels' = Append(h_tunnels, h_served)
                /\ h_task' = Spawned
                /\ h_resps' = Append(h_resps, [req |-> h_served,
                                               res |-> Response(200, empty, "proxy")])
                /\ h_pc' = "done"
                /\ h_ret' = OkUnit
    /\ UNCHANGED <<h_reqs, h_served, h_req, h_addr, h_sent>>
    /\ UNCHANGED beside_http

\* the tunnel task ends: its upstream stream is dropped
TaskEnd(task) == [task EXCEPT !.pc = "done", !.server = "Closed"]

\* a task that ends on the failed upgrade with its stream left open
HUpgrade_leak ==
    /\ h_task.pc = "upgrade"
    /\ \/ h_task' = [h_task EXCEPT !.pc = "copy"]
       \/ h_task' = [h_task EXCEPT !.pc = "done",
                                   !.log = Append(@, "Failed to upgrade")]
    /\ UNCHANGED <<h_reqs, h_pc, h_served, h_req, h_addr, h_dials, h_sent, h_resps,
                   h_tunnels, h_ret>>
    /\ UNCHANGED beside_http

\* the tunnel task, hyper::upgrade::on(req).await: Ok(client) once the
\* connection has written the 200 response, Err when it could not; the
\* error is logged and the task ends
HUpgrade ==
    /\ h_task.pc = "upgrade"
    /\ \/ h_task' = [h_task EXCEPT !.pc = "copy"]
       \/ h_task' = [TaskEnd(h_task) EXCEPT !.log = Append(@, "Failed to upgrade")]
    /\ UNCHANGED <<h_reqs, h_pc, h_served, h_req, h_addr, h_dials, h_sent, h_resps,
                   h_tunnels, h_ret>>
    /\ UNCHANGED beside_http

\* the tunnel task, copy_bidirectional(&mut client, &mut server): a byte
\* goes from the client up or from the upstream down
HTunnelCopy(d) ==
    /\ h_task.pc = "copy"
    /\ h_task.copied[d] < MaxTail
    /\ h_task' = [h_task EXCEPT !.copied[d] = @ + 1]
    /\ UNCHANGED <<h_reqs, h_pc, h_served, h_req, h_addr, h_dials, h_sent, h_resps,
                   h_tunnels, h_ret>>
    /\ UNCHANGED beside_http

\* the tunnel task: copy_bidirectional returns, its result is discarded
\* and the task ends
HTunnelEnd ==
    /\ h_task.pc = "copy"
    /\ h_task' = TaskEnd(h_task)
    /\ UNCHANGED <<h_reqs, h_pc, h_served, h_req, h_addr, h_dials, h_sent, h_resps,
                   h_tunnels, h_ret>>
    /\ UNCHANGED beside_http

\* an address that takes the authority as written, with no default port
request_addr_as_written(a) == [host |-> a.host, port |-> a.port]

\* format!("{}:{}", authority.host(), authority.port_u16().unwrap_or(80))
request_addr(a) ==
    [host |-> a.host, port |-> IF a.port = None THEN Some(DefaultPort) ELSE a.port]

\* handle_request up to the dial
HRequest ==
    /\ h_pc = "request"
    /\ IF uri_authority(h_req.uri) = None
       THEN /\ Respond(Response(400, empty, "proxy"))
            /\ UNCHANGED <<h_addr, h_req>>
       ELSE /\ h_addr' = request_addr(uri_authority(h_req.uri)[1])
            /\ h_req' = transform_request(h_req)
            /\ h_pc' = "request_dial"
            /\ UNCHANGED <<h_resps, h_ret>>
    /\ UNCHANGED <<h_reqs, h_served, h_dials, h_sent, h_tunnels, h_task>>
    /\ UNCHANGED beside_http

\* handle_request, the dial
HRequestDial ==
    /\ h_pc = "request_dial"
    /\ \E r \in DialOutcomes(h_addr) :
          /\ h_dials' = Append(h_dials, [req |-> h_served, addr |-> h_addr, ret |-> r])
          /\ \/ /\ r.kind = "Io"
                /\ Respond(Response(502, full(r.err), "proxy"))
             \/ /\ r.kind = "Panic"
                /\ Abort(Panic)
             \/ /\ r.kind = "Ok"
                /\ h_pc' = "handshake"
                /\ UNCHANGED <<h_resps, h_ret>>
    /\ UNCHANGED <<h_reqs, h_served, h_req, h_addr, h_sent, h_tunnels, h_task>>
    /\ UNCHANGED beside_http

\* handle_request, Client::handshake(stream)
HHandshake ==
    /\ h_pc = "handshake"
    /\ \/ /\ h_pc' = "send"
          /\ UNCHANGED <<h_resps, h_ret>>
       \/ Respond(Response(500, full("handshake"), "proxy"))
    /\ UNCHANGED <<h_reqs, h_served, h_req, h_addr, h_dials, h_sent, h_tunnels, h_task>>
    /\ UNCHANGED beside_http

\* handle_request, sender.send_request(req).await?: the upstream's response
\* is passed on, an error leaves the handler by `?`
HSend ==
    /\ h_pc = "send"
    /\ h_sent' = Append(h_sent, [req |-> h_served, msg |-> h_req])
    /\ \/ Respond(Response(200, "body", "upstream"))
       \/ Abort([kind |-> "Err", err |-> "send_request"])
    /\ UNCHANGED <<h_reqs, h_served, h_req, h_addr, h_dials, h_tunnels, h_task>>
    /\ UNCHANGED beside_http

\* ------------------------------------------------- one HTTP connection

HttpNext ==
    \/ HRead
    \/ HConnect
    \/ HConnectDial
    \/ HRequest
    \/ HRequestDial
    \/ HHandshake
    \/ HSend
    \/ HUpgrade
    \/ \E d \in {"up", "down"} : HTunnelCopy(d)
    \/ HTunnelEnd

HttpInit == HttpAccepted /\ SocksIdle /\ DialIdle /\ XformIdle /\ SpliceIdle /\ MainIdle

HttpSpec == HttpInit /\ [][HttpNext]_vars

\* --------------------------------------------- transform_request alone

\* field names as clients write them, and field values
WireNames ==
    {"Proxy-Connection", "proxy-connection", "Proxy-Authorization", "Host", "Accept"}

WireValues == {"1", "2"}

WireHeaders == SeqsUpTo(WireNames \X WireValues, MaxHeaders)

\* the requests transform_request is tried on
Requests ==
    { [method |-> m, uri |-> u, headers |-> header_map(l),
       body |-> IF m = "POST" THEN "x" ELSE ""] :
          m \in {"GET", "POST"}, u \in HttpUris, l \in WireHeaders }

XformCalled ==
    /\ t_req \in Requests
    /\ t_out = <<>>

\* transform_request on the request, then on its own result
Transform ==
    /\ Len(t_out) < 2
    /\ t_out' = Append(t_out, transform_request(IF t_out = <<>> THEN t_req
                                                ELSE t_out[Len(t_out)]))
    /\ t_req' = t_req
    /\ UNCHANGED beside_xform

XformNext == Transform

XformInit == XformCalled /\ SocksIdle /\ DialIdle /\ HttpIdle /\ SpliceIdle /\ MainIdle

XformSpec == XformInit /\ [][XformNext]_vars

\* --------------------------------------------- io::copy_bidirectional

\* the stream a direction reads, the stream it writes
Reads(d) == IF d = "a_to_b" THEN "a" ELSE "b"

Writes(d) == IF d = "a_to_b" THEN "b" ELSE "a"

\* copy_bidirectional(&mut client, &mut server) has been called
SpliceCalled ==
    /\ s_pc = "copy"
    /\ s_sent \in [Directions -> 0..MaxSplice]
    /\ s_copied = [d \in Directions |-> 0]
    /\ s_state = [d \in Directions |-> "Running"]
    /\ s_shut = [x \in Streams2 |-> FALSE]
    /\ s_open = [x \in Streams2 |-> TRUE]
    /\ s_ret = Running

\* TransferState::Running, poll_copy: some bytes read from one stream are
\* written to the other
SpliceCopy(d) ==
    /\ s_pc = "copy"
    /\ s_state[d] = "Running"
    /\ \E n \in 1..(s_sent[d] - s_copied[d]) :
          s_copied' = [s_copied EXCEPT ![d] = @ + n]
    /\ UNCHANGED <<s_pc, s_sent, s_state, s_shut, s_open, s_ret>>
    /\ UNCHANGED beside_splice

\* a direction that is done at EOF without shutting the writer down
SpliceEof_done(d) ==
    /\ s_pc = "copy"
    /\ s_state[d] = "Running"
    /\ s_copied[d] = s_sent[d]
    /\ s_state' = [s_state EXCEPT ![d] = "Done"]
    /\ UNCHANGED <<s_pc, s_sent, s_copied, s_shut, s_open, s_ret>>
    /\ UNCHANGED beside_splice

\* TransferState::Running, poll_copy returns at EOF of the reader, all that
\* was read being written: the direction turns to ShuttingDown
SpliceEof(d) ==
    /\ s_pc = "copy"
    /\ s_state[d] = "Running"
    /\ s_copied[d] = s_sent[d]
    /\ s_state' = [s_state EXCEPT ![d] = "ShuttingDown"]
    /\ UNCHANGED <<s_pc, s_sent, s_copied, s_shut, s_open, s_ret>>
    /\ UNCHANGED beside_splice

\* TransferState::ShuttingDown, poll_shutdown of the writer, then Done
SpliceShutdown(d) ==
    /\ s_pc = "copy"
    /\ s_state[d] = "ShuttingDown"
    /\ s_shut' = [s_shut EXCEPT ![Writes(d)] = TRUE]
    /\ s_state' = [s_state EXCEPT ![d] = "Done"]
    /\ UNCHANGED <<s_pc, s_sent, s_copied, s_open, s_ret>>
    /\ UNCHANGED beside_splice

\* both directions are Done: copy_bidirectional returns Ok, the caller
\* returns and its two streams are dropped
SpliceFinish ==
    /\ s_pc = "copy"
    /\ \A d \in Directions : s_state[d] = "Done"
    /\ s_pc' = "done"
    /\ s_ret' = OkUnit
    /\ s_open' = [x \in Streams2 |-> FALSE]
    /\ UNCHANGED <<s_sent, s_copied, s_state, s_shut>>
    /\ UNCHANGED beside_splice

\* a read, a write or the shutdown of a direction fails: copy_bidirectional
\* returns the error by `?`, the caller returns and its two streams are
\* dropped
SpliceError(d) ==
    /\ s_pc = "copy"
    /\ s_state[d] \in {"Running", "ShuttingDown"}
    /\ s_pc' = "done"
    /\ s_ret' = Io(d)
    /\ s_open' = [x \in Streams2 |-> FALSE]
    /\ UNCHANGED <<s_sent, s_copied, s_state, s_shut>>
    /\ UNCHANGED beside_splice

\* ------------------------------------------------------------ one tunnel

SpliceNext ==
    \/ \E d \in Directions : SpliceCopy(d)
    \/ \E d \in Directions : SpliceEof(d)
    \/ \E d \in Directions : SpliceShutdown(d)
    \/ SpliceFinish
    \/ \E d \in Directions : SpliceError(d)

SpliceInit == SpliceCalled /\ SocksIdle /\ DialIdle /\ HttpIdle /\ XformIdle /\ MainIdle

\* Each peer closes in the end and the executor polls the woken task: a
\* tunnel that can move does move.
SpliceSpec == SpliceInit /\ [][SpliceNext]_vars /\ WF_vars(SpliceNext)

\* -------------------------------------------------------------- main

ListenAddrs == {"a:1080", "b:1080"}

\* main has parsed its arguments and made the service
MainStarted ==
    /\ m_args \in UNION {[1..n -> ListenAddrs] : n \in 1..MaxListen}
    /\ m_busy \in SUBSET ListenAddrs
    /\ m_pc = "bind"
    /\ m_listeners = <<>>
    /\ m_conns = <<>>
    /\ m_ret = Running

\* anyhow::Error with its context
Err(context, n) == [kind |-> "Err", context |-> context, at |-> n]

\* bind_all: TcpListener::bind on each address in the order given, ended
\* by the first that fails; an address is refused when a listener holds
\* it, be it another process's or one bound a moment ago
RECURSIVE bind_all(_, _, _)
bind_all(args, busy, bound) ==
    IF args = <<>> THEN [kind |-> "Ok", listeners |-> bound]
    ELSE IF args[1] \in busy \/ Contains(bound, args[1])
    THEN Err("failed to bind", args[1])
    ELSE bind_all(Drop(args, 1), busy, Append(bound, args[1]))

\* main: activate_or_bind_all(&args).await?
BindAll ==
    /\ m_pc = "bind"
    /\ LET r == bind_all(m_args, m_busy, <<>>)
       IN  IF r.kind = "Ok"
           THEN /\ m_listeners' = r.listeners
                /\ m_pc' = "serve"
                /\ m_ret' = m_ret
           ELSE /\ m_listeners' = m_listeners
                /\ m_pc' = "done"
                /\ m_ret' = r
    /\ UNCHANGED <<m_args, m_busy, m_conns>>
    /\ UNCHANGED beside_main

\* listen: accept returns a client, whose task is spawned
Accept(l) ==
    /\ m_pc = "serve"
    /\ Len(m_conns) < MaxConns
    /\ m_conns' = Append(m_conns, [listener |-> l, state |-> "running"])
    /\ UNCHANGED <<m_args, m_busy, m_pc, m_listeners, m_ret>>
    /\ UNCHANGED beside_main

\* how a connection task can end: Ok, a protocol error, an I/O error, a
\* failed dial, a panic
ConnOutcomes == {"Ok", "Protocol", "Io", "Dial", "Panic"}

\* main returns: the runtime shuts down and drops the tasks still running
Teardown(conns) ==
    [c \in 1..Len(conns) |->
        IF conns[c].state = "running" THEN [conns[c] EXCEPT !.state = "cancelled"]
        ELSE conns[c]]

\* a program that goes down with a task that panics
ConnEnd_fatal(c) ==
    /\ m_pc = "serve"
    /\ m_conns[c].state = "running"
    /\ \E o \in ConnOutcomes :
          /\ m_conns' = IF o = "Panic"
                        THEN Teardown([m_conns EXCEPT ![c].state = o])
                        ELSE [m_conns EXCEPT ![c].state = o]
          /\ m_pc' = IF o = "Panic" THEN "done" ELSE m_pc
          /\ m_ret' = IF o = "Panic" THEN Panic ELSE m_ret
    /\ UNCHANGED <<m_args, m_busy, m_listeners>>
    /\ UNCHANGED beside_main

\* the task spawned for a connection ends; its result stays in the
\* JoinHandle, which listen has dropped
ConnEnd(c) ==
    /\ m_pc = "serve"
    /\ m_conns[c].state = "running"
    /\ \E o \in ConnOutcomes : m_conns' = [m_conns EXCEPT ![c].state = o]
    /\ UNCHANGED <<m_args, m_busy, m_pc, m_listeners, m_ret>>
    /\ UNCHANGED beside_main

\* listen: accept fails and the error leaves the loop by `?`; try_join_all
\* ends with it, main returns it
AcceptError(l) ==
    /\ m_pc = "serve"
    /\ m_pc' = "done"
    /\ m_ret' = Err("failed to accept connection", l)
    /\ m_conns' = Teardown(m_conns)
    /\ UNCHANGED <<m_args, m_busy, m_listeners>>
    /\ UNCHANGED beside_main

\* recv_signal ends, with a signal received or with the error of setting
\* the signal streams up; main returns its result
Signal ==
    /\ m_pc = "serve"
    /\ m_pc' = "done"
    /\ m_ret' \in {OkUnit, Io("signal")}
    /\ m_conns' = Teardown(m_conns)
    /\ UNCHANGED <<m_args, m_busy, m_listeners>>
    /\ UNCHANGED beside_main

\* --------------------------------------------------------- the program

MainNext ==
    \/ BindAll
    \/ \E l \in 1..Len(m_listeners) : Accept(l)
    \/ \E c \in 1..Len(m_conns) : ConnEnd(c)
    \/ \E l \in 1..Len(m_listeners) : AcceptError(l)
    \/ Signal

MainInit ==
    MainStarted /\ SocksIdle /\ DialIdle /\ HttpIdle /\ XformIdle /\ SpliceIdle

MainSpec == MainInit /\ [][MainNext]_vars

\* ================================================================ claims

\* ------------------------------------------------- wire-format reference

\* what follows the dispatcher's version byte on a SOCKSv4 connection
V4Stream == Drop(input, 1)

\* the end of the userid of s: the index of its terminator, 0 without one
V4UserEnd(s) == IF Len(s) < 8 THEN 0 ELSE FirstNul(s, 8)

\* the IPv4 field of s as a number
V4Ip(s) == ((s[4] * 256 + s[5]) * 256 + s[6]) * 256 + s[7]

\* the port field of s as a number
V4Port(s) == s[2] * 256 + s[3]

\* the length of the request frame at the head of s by the wire format:
\* command, port, IPv4, userid NUL and, for 0.0.0.1 .. 0.0.0.255, domain NUL;
\* 0 when s holds no whole frame
V4WireLen(s) ==
    IF V4UserEnd(s) = 0 THEN 0
    ELSE IF V4Ip(s) \in 1..255 THEN FirstNul(s, V4UserEnd(s) + 1)
    ELSE V4UserEnd(s)

V4User(s) == SubSeq(s, 8, V4UserEnd(s) - 1)

V4Domain(s) == SubSeq(s, V4UserEnd(s) + 1, V4WireLen(s) - 1)

\* s opens with a valid SOCKSv4 or SOCKSv4A request
ValidV4(s) ==
    /\ V4WireLen(s) > 0
    /\ s[1] \in {1, 2}
    /\ IsUtf8(V4User(s))
    /\ V4Ip(s) \in 1..255 => IsUtf8(V4Domain(s))

\* C1: on a SOCKSv4 connection whose stream opens with a valid v4 or v4A
\* request S, however the bytes are chunked, Request::from_buf returns
\* NeedMoreData for every strict prefix of S that read_request has
\* accumulated (no other error, no abort) and the Request of S once all of S
\* is there.
C1_V4IncrementalDecode ==
    (handler = "v4" /\ request # NoRequest /\ ValidV4(V4Stream)) =>
        IF Len(buf) < V4WireLen(V4Stream)
        THEN request = NeedMoreData
        ELSE /\ request.kind = "Ok"
             /\ request = v4_from_buf(Take(V4Stream, V4WireLen(V4Stream)))

\* C3: a SOCKSv4 request with valid command and userid decodes to
\* Domain(domain, port), consuming a second NUL-terminated string, exactly
\* when the IPv4 value is in 1..255; for 0 and for every value from 256 on
\* it decodes to V4(ip, port) as soon as the userid terminator is there,
\* whatever follows it.
C3_V4AddressVariant ==
    (handler = "v4" /\ request # NoRequest) =>
        LET s == V4Stream
        IN  /\ request.kind = "Ok" =>
                 /\ request.addr.tag = "Raw" <=> V4Ip(s) \in 1..255
                 /\ request.addr.tag = "V4" <=> V4Ip(s) \notin 1..255
                 /\ request.addr.port = V4Port(s)
                 /\ request.addr.tag = "V4" => request.addr.ip = V4Ip(s)
                 /\ request.addr.tag = "Raw" =>
                        /\ request.addr.domain = V4Domain(s)
                        /\ Len(buf) >= V4WireLen(s)
                 /\ request.user = V4User(s)
            /\ ( /\ V4UserEnd(s) > 0
                 /\ Len(buf) >= V4UserEnd(s)
                 /\ s[1] \in {1, 2}
                 /\ IsUtf8(V4User(s))
                 /\ V4Ip(s) \notin 1..255 )
               => /\ request.kind = "Ok"
                  /\ request = v4_from_buf(Take(s, V4UserEnd(s)))

\* a request to 0.0.1.0 (256) decoded as V4 with bytes after the userid
\* terminator already in the buffer
C3_Witness ==
    /\ handler = "v4"
    /\ request.kind = "Ok"
    /\ request.addr.tag = "V4"
    /\ request.addr.ip = 256
    /\ Len(buf) > V4UserEnd(V4Stream)

\* where the request frame starts on a SOCKSv5 connection: after the
\* version byte, nmethods, the methods and the request's version byte
V5Stream == Drop(input, 3 + input[2])

\* the length of the request frame at the head of s by the wire format:
\* command, reserved, address type, address, port; 0 when s holds no whole
\* frame of a known address type
V5WireLen(s) ==
    IF Len(s) < 3 THEN 0
    ELSE LET n == IF s[3] = 1 THEN 9
                  ELSE IF s[3] = 4 THEN 21
                  ELSE IF s[3] = 3 /\ Len(s) >= 4 THEN 4 + s[4] + 2
                  ELSE 0
         IN  IF n <= Len(s) THEN n ELSE 0

\* s opens with a valid SOCKSv5 request
ValidV5(s) ==
    /\ V5WireLen(s) > 0
    /\ s[1] \in {1, 2, 3}
    /\ s[2] = 0
    /\ s[3] = 3 => IsUtf8(SubSeq(s, 5, 4 + s[4]))

\* C2: on a SOCKSv5 connection, however the bytes are chunked, what
\* Request::from_buf returns for the bytes accumulated is NeedMoreData or
\* what it returns for the whole stream in one piece; when the stream opens
\* with a valid request S it is NeedMoreData for every strict prefix of S
\* and the Request of S once all of S is there.
C2_V5IncrementalDecode ==
    (handler = "v5" /\ request # NoRequest) =>
        /\ request \in {NeedMoreData, v5_from_buf(V5Stream)}
        /\ ValidV5(V5Stream) =>
              IF Len(buf) < V5WireLen(V5Stream)
              THEN request = NeedMoreData
              ELSE /\ request.kind = "Ok"
                   /\ request = v5_from_buf(Take(V5Stream, V5WireLen(V5Stream)))

\* a domain request cut inside the domain name
C2_Witness ==
    /\ handler = "v5"
    /\ request = NeedMoreData
    /\ ValidV5(V5Stream)
    /\ V5Stream[3] = 3
    /\ V5Stream[4] = 2
    /\ Len(buf) = 5

\* C4: a SOCKSv5 request frame whose reserved byte is not 0 is rejected
\* with a Protocol error whatever its command byte and whatever follows;
\* nothing is dialed and no reply is written for it.
C4_V5ReservedByte ==
    (handler = "v5" /\ request # NoRequest /\ Len(buf) >= 2 /\ buf[2] # 0) =>
        /\ request.kind = "Protocol"
        /\ pc = "done"
        /\ ret = request
        /\ connects = <<>>
        /\ server = "None"
        /\ response = "None"
        /\ wrote = << <<5, 0>> >>
        /\ upstream = <<>>

\* a frame with a non-zero reserved byte, an unknown command and an
\* address after them
C4_Witness ==
    /\ handler = "v5"
    /\ request.kind = "Protocol"
    /\ Len(buf) > 2
    /\ buf[1] = 0
    /\ buf[2] # 0

\* C5: the dispatcher consumes exactly one byte; 0x04 hands the stream to
\* the v4 handler and 0x05 to the v5 handler, each reading from the next
\* byte on; any other value ends the connection with a protocol error,
\* nothing written to the client and nothing dialed.
C5_DispatcherRouting ==
    /\ pc = "dispatch" => pos = 0 /\ handler = "none"
    /\ (pc # "dispatch" /\ pos >= 1) =>
          /\ input[1] = 4 <=> handler = "v4"
          /\ input[1] = 5 <=> handler = "v5"
          /\ handler = "none" =>
                /\ pc = "done"
                /\ ret.kind = "Protocol"
                /\ pos = 1
                /\ wrote = <<>>
                /\ out = <<>>
                /\ connects = <<>>
                /\ server = "None"
                /\ request = NoRequest
          /\ pc \in {"v4_read", "v4_command", "v4_reply"} =>
                buf = SubSeq(input, 2, pos)
          /\ pc = "v5_nmethods" => pos = 1
          /\ pc = "v5_methods" => pos = 2 /\ Len(auth_req) = input[2]

\* a stream opening with 0x43 ('C') has been turned away
C5_Witness ==
    /\ pc = "done"
    /\ handler = "none"
    /\ pos = 1
    /\ input[1] = 67
    /\ ret.kind = "Protocol"

\* the method bytes of the greeting on the wire
V5Methods == SubSeq(input, 3, 2 + input[2])

\* C6: having read nmethods and exactly nmethods method bytes, the v5
\* handler writes 05 00 and goes on to the request exactly when the list
\* holds 0x00; otherwise, nmethods = 0 included, it writes 05 FF and ends
\* the connection, reading no request, dialing nothing and writing nothing
\* more. (A write that fails with an I/O error ends the connection.)
C6_V5MethodNegotiation ==
    /\ (handler = "v5" /\ Len(wrote) >= 1) =>
        /\ auth_req = V5Methods
        /\ IF Contains(V5Methods, 0)
           THEN /\ wrote[1] = <<5, 0>>
                /\ (out = <<>>) = (ret = Io("write") /\ Len(wrote) = 1)
                /\ Len(out) >= 2 => Take(out, 2) = <<5, 0>>
                /\ (pc = "done" /\ pos = 2 + input[2]) =>
                      ret \in {Io("write"), UnexpectedEof}
           ELSE /\ wrote = << <<5, 255>> >>
                /\ out \in {<<>>, <<5, 255>>}
                /\ pc = "done"
                /\ ret = IF out = <<>> THEN Io("write") ELSE OkUnit
                /\ pos = 2 + input[2]
                /\ request = NoRequest
                /\ buf = <<>>
                /\ connects = <<>>
                /\ server = "None"
                /\ upstream = <<>>
    /\ pc \in {"v5_version", "v5_read", "v5_command", "v5_reply", "v5_splice"} =>
          Contains(V5Methods, 0) /\ Take(out, 2) = <<5, 0>>

\* a greeting offering method 2 alone, with a request behind it, has been
\* answered 05 FF and the connection ended
C6_Witness ==
    /\ handler = "v5"
    /\ pc = "done"
    /\ V5Methods = <<2>>
    /\ out = <<5, 255>>
    /\ Len(input) > pos

\* the 10-byte SOCKSv5 reply of a status
V5ReplyOf(status) == <<5, status, 0, 1, 0, 0, 0, 0, 0, 0>>

\* C7: for every decoded SOCKSv5 request exactly one reply is written, the
\* 10 bytes 05 status 00 01 00000000 0000: status 07 for Bind and
\* UdpAssociate, with nothing dialed and the connection ended; status 01
\* when the Connect dial fails, the connection ended without a splice;
\* status 00 when the Connect dial succeeds, and then the splice.
C7_V5CommandOutcome ==
    (handler = "v5" /\ request.kind = "Ok") =>
        /\ pc \in {"v5_command", "v5_reply", "v5_splice", "done"}
        /\ pc \in {"v5_command", "v5_reply"} => Len(wrote) = 1 /\ upstream = <<>>
        /\ pc = "v5_command" => connects = <<>>
        /\ pc = "v5_splice" => request.cmd = "Connect" /\ server = "Some"
        /\ pc \in {"v5_splice", "done"} =>
              /\ Len(wrote) = 2
              /\ out \in {<<5, 0>>, <<5, 0>> \o wrote[2]}
              /\ (out = <<5, 0>>) => (pc = "done" /\ ret = Io("write") /\ upstream = <<>>)
              /\ IF request.cmd \in {"Bind", "UdpAssociate"}
                 THEN /\ wrote[2] = V5ReplyOf(7)
                      /\ connects = <<>>
                      /\ server = "None"
                      /\ pc = "done"
                      /\ upstream = <<>>
                      /\ ret \in {OkUnit, Io("write")}
                 ELSE /\ connects = <<request.addr>>
                      /\ IF server = "None"
                         THEN /\ wrote[2] = V5ReplyOf(1)
                              /\ pc = "done"
                              /\ upstream = <<>>
                              /\ ret \in {OkUnit, Io("write")}
                         ELSE /\ wrote[2] = V5ReplyOf(0)
                              /\ pc = "done" =>
                                    ret \in {OkUnit, Io("write"), Io("copy_bidirectional")}
                              /\ (pc = "done" /\ out # <<5, 0>>) => ret # Io("write")

\* a UdpAssociate request has been answered with status 07
C7_Witness ==
    /\ handler = "v5"
    /\ pc = "done"
    /\ request.kind = "Ok"
    /\ request.cmd = "UdpAssociate"
    /\ out = <<5, 0>> \o V5ReplyOf(7)
    /\ ret = OkUnit

\* the 8-byte SOCKSv4 reply Rejected
V4Rejected == <<0, 91, 0, 0, 0, 0, 0, 0>>

\* C8: on a SOCKSv4 connection a Bind request, and a Connect request whose
\* dial fails, are answered with the 8 bytes 00 5B 0000 00000000 before the
\* connection ends, and no splice is started.
C8_V4FailureReply ==
    (handler = "v4" /\ request.kind = "Ok") =>
        /\ pc \in {"v4_command", "v4_reply", "v4_splice", "done"}
        /\ pc \in {"v4_command", "v4_reply"} => wrote = <<>> /\ upstream = <<>>
        /\ pc = "v4_splice" =>
              request.cmd = "Connect" /\ server = "Some" /\ connects = <<request.addr>>
        /\ (pc \in {"v4_splice", "done"} /\ request.cmd = "Bind") => connects = <<>>
        /\ ( /\ pc \in {"v4_splice", "done"}
             /\ request.cmd = "Bind" \/ server = "None" )
           => /\ wrote = <<V4Rejected>>
              /\ out \in {<<>>, V4Rejected}
              /\ pc = "done"
              /\ ret = IF out = <<>> THEN Io("write") ELSE OkUnit
              /\ server = "None"
              /\ upstream = <<>>

\* a Connect request whose dial failed has been answered Rejected
C8_Witness ==
    /\ handler = "v4"
    /\ pc = "done"
    /\ request.kind = "Ok"
    /\ request.cmd = "Connect"
    /\ connects = <<request.addr>>
    /\ server = "None"
    /\ out = V4Rejected
    /\ ret = OkUnit

\* the attempt made for candidate i ends with a stream: its socket can be
\* bound where a bind address is set, and the candidate accepts
AttemptSucceeds(i) ==
    /\ bind_addr = "None" \/ bind_addr = cands[i].family
    /\ cands[i].accepts

C10_DialNoCandidates ==
    (dial_pc = "done" /\ Len(cands) = 0 /\ dial_ret # Io("lookup_host")) =>
        dial_ret = Io("AddrNotAvailable")

C12_SocksConnectUsesDialer ==
    (handler \in {"v4", "v5"} /\ connects # <<>>) => dial_pc # "idle"

\* the number of client bytes up to the end of the request frame: the
\* version byte and the v4 frame, or the greeting, the request's version
\* byte and the v5 frame
FrameEnd ==
    IF handler = "v4" THEN 1 + V4WireLen(V4Stream)
    ELSE 3 + input[2] + V5WireLen(V5Stream)

\* C13: on a SOCKSv4 or SOCKSv5 connection whose Connect succeeded, once
\* copying has started the upstream has received exactly the bytes the proxy
\* has taken from the client after the end of the request frame, in order
\* and once each, those that came in the same read as the end of the frame
\* included.
C13_RequestToSpliceHandoff ==
    ( \/ pc \in {"v4_splice", "v5_splice"}
      \/ (pc = "done" /\ server = "Closed" /\ ret = OkUnit) ) =>
        upstream = SubSeq(input, FrameEnd + 1, pos)

\* ------------------------------------------------------ the HTTP provider

\* request n has left its handler
Completed(n) == n < h_served \/ (n = h_served /\ h_pc \in {"read", "done"})

\* the responses written for request n, the dials made for it
RespsOf(n) == SelectSeq(h_resps, LAMBDA e : e.req = n)

DialsOf(n) == SelectSeq(h_dials, LAMBDA e : e.req = n)

TunnelsOf(n) == SelectSeq(h_tunnels, LAMBDA k : k = n)

\* the connection did not end on request n: if n is the last one served
\* and the connection is over, the client had no more to send
StaysOpen(n) ==
    (h_pc = "done" /\ h_served = n) => (n = Len(h_reqs) /\ h_ret = OkUnit)

\* C14: for every CONNECT request, (a) a target without authority is
\* answered 400 with the body "CONNECT must be to a socket address" and
\* nothing is dialed; otherwise the authority is dialed once and (b) a dial
\* that returns an error is answered 502 with the error's message as body,
\* (c) a dial that returns a stream is answered 200 with an empty body and
\* one tunnel task is started. After (a) and (b) the connection stays open
\* for the next request.
C14_HttpConnectOutcomes ==
    \A n \in 1..h_served :
        (h_reqs[n].method = "CONNECT" /\ Completed(n)) =>
            LET a == h_reqs[n].uri.authority
                rs == RespsOf(n)
                ds == DialsOf(n)
            IN  IF a.host = ""
                THEN /\ Len(rs) = 1
                     /\ rs[1].res.status = 400
                     /\ rs[1].res.body = "CONNECT must be to a socket address"
                     /\ ds = <<>>
                     /\ TunnelsOf(n) = <<>>
                     /\ StaysOpen(n)
                ELSE /\ Len(ds) = 1
                     /\ ds[1].addr = [host |-> a.host, port |-> a.port]
                     /\ ds[1].ret.kind = "Io" =>
                           /\ Len(rs) = 1
                           /\ rs[1].res.status = 502
                           /\ rs[1].res.body = ds[1].ret.err
                           /\ TunnelsOf(n) = <<>>
                           /\ StaysOpen(n)
                     /\ ds[1].ret.kind = "Ok" =>
                           /\ Len(rs) = 1
                           /\ rs[1].res.status = 200
                           /\ rs[1].res.body = ""
                           /\ TunnelsOf(n) = <<n>>

\* a connection on which a CONNECT without authority was answered 400 and
\* the next request, a CONNECT whose dial failed, 502
C14_Witness ==
    /\ h_served = 2
    /\ h_pc = "read"
    /\ h_reqs[1].method = "CONNECT" /\ h_reqs[1].uri.authority.host = ""
    /\ h_reqs[2].method = "CONNECT" /\ h_reqs[2].uri.authority.host = "h"
    /\ Len(h_resps) = 2
    /\ h_resps[1].res.status = 400
    /\ h_resps[2].res.status = 502
    /\ h_dials[1].ret = Io("dial_one")

\* C15: for every request that is not a CONNECT, a target without
\* authority is answered 400 with an empty body, with no transform and no
\* dial; otherwise exactly one dial is made for the request, to the host of
\* the authority and its port, 80 when the authority names none; a later
\* request to the same authority is dialed again.
C15_HttpPlainAddressing ==
    \A n \in 1..h_served :
        h_reqs[n].method # "CONNECT" =>
            LET a == h_reqs[n].uri.authority
                rs == RespsOf(n)
                ds == DialsOf(n)
            IN  /\ Len(ds) <= 1
                /\ Completed(n) =>
                     IF a.host = ""
                     THEN /\ Len(rs) = 1
                          /\ rs[1].res.status = 400
                          /\ rs[1].res.body = ""
                          /\ ds = <<>>
                          /\ n = h_served => h_req = h_reqs[n]
                          /\ \A k \in 1..Len(h_sent) : h_sent[k].req # n
                     ELSE /\ Len(ds) = 1
                          /\ ds[1].addr.host = a.host
                          /\ ds[1].addr.port =
                                IF a.port = <<>> THEN <<80>> ELSE a.port

\* two requests to http://h/p on one connection, each dialed to h:80
C15_Witness ==
    /\ h_served = 2
    /\ h_pc = "read"
    /\ h_reqs[1].method = "GET" /\ h_reqs[2].method = "GET"
    /\ h_reqs[1].uri = h_reqs[2].uri
    /\ h_reqs[1].uri.authority = [host |-> "h", port |-> <<>>]
    /\ Len(h_dials) = 2
    /\ h_dials[1].addr = [host |-> "h", port |-> <<80>>]
    /\ h_dials[2].addr = [host |-> "h", port |-> <<80>>]
    /\ h_dials[2].req = 2

\* C16: for every request that is not a CONNECT and has an authority, once
\* the handler is through with it the client has got one response for it,
\* a 502 or 500 made by the proxy when the upstream side failed (the dial
\* returned an error, the handshake failed, sending the request or
\* receiving the response head failed), and the connection stays open: no
\* upstream failure ends the request without a response. (The dial that
\* panics instead of returning is C10's case and is left out here.)
C16_HttpUpstreamFailuresAnswered ==
    \A n \in 1..h_served :
        ( /\ h_reqs[n].method # "CONNECT"
          /\ h_reqs[n].uri.authority.host # ""
          /\ Completed(n)
          /\ \A k \in 1..Len(h_dials) :
                h_dials[k].req = n => h_dials[k].ret.kind # "Panic" ) =>
            LET rs == RespsOf(n)
            IN  /\ Len(rs) = 1
                /\ rs[1].res.by = "proxy" => rs[1].res.status \in {500, 502}
                /\ StaysOpen(n)

\* ---------------------------------------------------- the request transform

\* the two names the transform is to remove, in the spellings clients use
HopSpellings == {"Proxy-Connection", "proxy-connection", "Proxy-Authorization"}

\* the field lines of map under a name other than those two, in order
KeptLines(map) == SelectSeq(header_lines(map), LAMBDA l : l[1] \notin HopSpellings)

\* the field lines of map written with the spelling n
LinesSpelled(map, n) == SelectSeq(header_lines(map), LAMBDA l : l[1] = n)

\* transform_request applied twice gives, in target and headers, what it
\* gives applied once; method and body are the request's
TransformIdempotent ==
    /\ Len(t_out) = 2 =>
          /\ t_out[2].uri = t_out[1].uri
          /\ t_out[2].headers = t_out[1].headers
    /\ \A k \in 1..Len(t_out) :
          /\ t_out[k].method = t_req.method
          /\ t_out[k].body = t_req.body

\* C17, as stated: idempotence, and the field lines other than
\* Proxy-Connection and Proxy-Authorization come out with their names,
\* values, multiplicity and order.
C17_TransformKeepsOrder ==
    /\ TransformIdempotent
    /\ \A k \in 1..Len(t_out) :
          header_lines(t_out[k].headers) = KeptLines(t_req.headers)

\* C17, amended: idempotence, and for every name other than
\* Proxy-Connection and Proxy-Authorization the field lines of that name
\* come out as written, with their values, multiplicity and order among
\* themselves, and no other line comes out; the order of lines of different
\* names is not kept.
C17_TransformIdempotence ==
    /\ TransformIdempotent
    /\ \A k \in 1..Len(t_out) :
          /\ \A n \in WireNames \ HopSpellings :
                LinesSpelled(t_out[k].headers, n) = LinesSpelled(t_req.headers, n)
          /\ Len(header_lines(t_out[k].headers)) = Len(KeptLines(t_req.headers))

\* the transform applied twice to a request whose Proxy-Connection line
\* stood before its Host and Accept lines
C17_Witness ==
    /\ Len(t_out) = 2
    /\ Len(t_req.headers) = 3
    /\ t_req.headers[1].name = "proxy-connection"
    /\ t_req.headers[2].name = "host"
    /\ t_req.headers[3].name = "accept"
    /\ Len(t_out[1].headers) = 2
    /\ t_out[1].headers[1].name = "accept"

\* the target has no path-and-query part: it is in authority form
AuthorityForm(u) == u.scheme = "" /\ u.authority.host # ""

C19_NoHopByHopHeaders ==
    \A k \in 1..Len(t_out) :
        /\ LinesSpelled(t_out[k].headers, "Proxy-Connection") = <<>>
        /\ LinesSpelled(t_out[k].headers, "proxy-connection") = <<>>
        /\ LinesSpelled(t_out[k].headers, "Proxy-Authorization") = <<>>
        /\ \A i \in 1..Len(t_out[k].headers) :
              t_out[k].headers[i].name \notin {"proxy-connection", "proxy-authorization"}

\* the transform applied to a request with Proxy-Connection in two
\* spellings and a Proxy-Authorization line
C19_Witness ==
    /\ Len(t_out) >= 1
    /\ Len(LinesSpelled(t_req.headers, "Proxy-Connection")) = 1
    /\ Len(LinesSpelled(t_req.headers, "proxy-connection")) = 1
    /\ Len(LinesSpelled(t_req.headers, "Proxy-Authorization")) = 1
    /\ t_out[1].headers = <<>>

\* -------------------------------------------------------------- the tunnel

\* C20: in a tunnel, a direction leaves Running only at the EOF of its
\* reader, with all that was sent before forwarded; when it is done the
\* write side of the opposite stream has been shut down, and the other
\* direction goes on forwarding until its own EOF; the splice returns Ok
\* only when both directions are done, and an error only out of a direction
\* that was not; the splice does finish, and from then on both streams are
\* closed.
C20_SpliceClosePropagation ==
    /\ [](\A d \in Directions :
            /\ s_state[d] # "Running" => s_copied[d] = s_sent[d]
            /\ s_state[d] = "Done" => s_shut[Writes(d)]
            /\ s_shut[Writes(d)] => s_state[d] = "Done")
    /\ []((s_pc = "done" /\ s_ret = OkUnit) =>
             \A d \in Directions : s_state[d] = "Done")
    /\ []((s_pc = "done" /\ s_ret # OkUnit) =>
             \E d \in Directions : s_ret = Io(d) /\ s_state[d] # "Done")
    /\ [](s_pc = "copy" => \A x \in Streams2 : s_open[x])
    /\ [](s_pc = "done" => \A x \in Streams2 : ~s_open[x])
    /\ <>(s_pc = "done")

\* the client closed first: its direction is done and the upstream's write
\* side shut down while the other direction has forwarded a byte since and
\* is still running
C20_Witness ==
    /\ s_pc = "copy"
    /\ s_state["a_to_b"] = "Done"
    /\ s_shut["b"]
    /\ s_state["b_to_a"] = "Running"
    /\ s_copied["b_to_a"] = 1
    /\ s_sent["b_to_a"] = 2

\* a step in which the task of connection c ends in an error or a panic
ConnFails(c) ==
    /\ c \in 1..Len(m_conns)
    /\ m_conns[c].state = "running"
    /\ Len(m_conns') = Len(m_conns)
    /\ m_conns'[c].state \in ConnOutcomes \ {"Ok"}

\* the addresses of a list, each once, in the order of first appearance
RECURSIVE Distinct(_)
Distinct(s) ==
    IF s = <<>> THEN <<>>
    ELSE LET front == Distinct(Take(s, Len(s) - 1))
         IN  IF Contains(front, s[Len(s)]) THEN front
             ELSE Append(front, s[Len(s)])

\* C21: a connection task that ends in a protocol error, an I/O error, a
\* failed dial or a panic leaves the program serving, every listener in
\* place and every other connection as it was; the program ends only with
\* a failed bind at startup, an accept error or the end of recv_signal,
\* and an accept error makes main return that error.
C21_ConnectionFaultIsolation ==
    /\ [][\A c \in 1..MaxConns + 1 :
            ConnFails(c) =>
               /\ m_pc' = "serve"
               /\ m_ret' = Running
               /\ m_listeners' = m_listeners
               /\ \A d \in 1..Len(m_conns) : d # c => m_conns'[d] = m_conns[d]]_vars
    /\ [][m_pc = "serve" /\ m_pc' = "done" =>
            /\ \A c \in 1..Len(m_conns) : ~ConnFails(c)
            /\ \/ m_ret' \in {OkUnit, Io("signal")}
               \/ /\ m_ret'.kind = "Err"
                  /\ m_ret'.context = "failed to accept connection"
                  /\ m_ret'.at \in 1..Len(m_listeners)]_vars
    /\ [][m_pc = "serve" /\ m_pc' = "serve" =>
            m_listeners' = m_listeners /\ m_ret' = Running]_vars

\* a connection has panicked, and the listener that accepted it has
\* accepted another one since
C21_Witness ==
    /\ m_pc = "serve"
    /\ Len(m_conns) = 2
    /\ m_conns[1].state = "Panic"
    /\ m_conns[2].listener = m_conns[1].listener
    /\ m_conns[2].state = "running"

\* C22: when no other process holds a listen address, startup succeeds
\* and there is one listener for each distinct address given, however
\* often the address was given.
C22_ListenDedup ==
    (m_pc # "bind" /\ \A i \in 1..Len(m_args) : m_args[i] \notin m_busy) =>
        /\ m_pc = "done" => m_ret.kind # "Err" \/ m_ret.context # "failed to bind"
        /\ m_pc = "serve" => m_listeners = Distinct(m_args)

\* an address given twice and held by nobody: the second bind failed
C22_DuplicateRefused ==
    /\ m_pc = "done"
    /\ m_busy = {}
    /\ Len(m_args) = 2
    /\ m_args[1] = m_args[2]
    /\ m_ret = Err("failed to bind", m_args[2])

\* C23: every Domain address the v4A or the v5 decoder produces has a name
\* that is valid UTF-8 and not empty, and no connect is made to a Domain
\* address with an empty name.
C23_DomainNonEmpty ==
    /\ (request.kind = "Ok" /\ request.addr.tag = "Raw") =>
          /\ IsUtf8(request.addr.domain)
          /\ request.addr.domain # <<>>
    /\ \A i \in 1..Len(connects) :
          connects[i].tag = "Raw" => connects[i].domain # <<>>

\* a SOCKSv5 CONNECT with domain length 0 was decoded and its address dialed
C23_EmptyDomainDialed ==
    /\ handler = "v5"
    /\ request.kind = "Ok"
    /\ request.addr.tag = "Raw"
    /\ request.addr.domain = <<>>
    /\ Len(connects) = 1
    /\ connects[1] = request.addr

\* a SOCKSv4A CONNECT with an empty domain string was decoded and dialed
C23_EmptyDomainDialedV4 ==
    /\ handler = "v4"
    /\ request.kind = "Ok"
    /\ request.addr.tag = "Raw"
    /\ request.addr.domain = <<>>
    /\ Len(connects) = 1
    /\ connects[1] = request.addr

\* the buffers Request::read_string has been called with while decoding
\* b: what follows the IPv4 field and, for v4A, what follows the userid
ReadStringCalls(b) ==
    IF Len(b) < 8 \/ b[1] \notin {1, 2} THEN {}
    ELSE {Drop(b, 7)} \cup
         (IF V4UserEnd(b) > 0 /\ IsUtf8(V4User(b)) /\ V4Ip(b) \in 1..255
          THEN {Drop(b, V4UserEnd(b))} ELSE {})

HasNul(b) == \E i \in 1..Len(b) : b[i] = 0

\* C24: for every buffer read_string is called with, it returns
\* NeedMoreData when the buffer holds no NUL, the empty buffer included;
\* with a NUL at k it returns the k - 1 bytes before it as the string, or a
\* Protocol error when they are not UTF-8, and leaves what follows k.
C24_ReadString ==
    (handler = "v4" /\ request # NoRequest) =>
        \A b \in ReadStringCalls(buf) :
            LET r == v4_read_string(b)
            IN  /\ ~HasNul(b) => r = NeedMoreData
                /\ HasNul(b) =>
                      LET k == CHOOSE i \in 1..Len(b) :
                                  b[i] = 0 /\ \A j \in 1..(i - 1) : b[j] # 0
                      IN  /\ r.kind \in {"Ok", "Protocol"}
                          /\ r.kind = "Ok" <=> IsUtf8(Take(b, k - 1))
                          /\ r.kind = "Ok" =>
                                r.str = Take(b, k - 1) /\ r.rest = Drop(b, k)

\* a v4A request read up to the userid's terminator: read_string was
\* called for the domain with nothing remaining and the task aborted
C24_EmptyRemainder ==
    /\ handler = "v4"
    /\ <<>> \in ReadStringCalls(buf)
    /\ request = Panic
    /\ ret = Panic

\* the connection task is in the read_request loop or has been through it
V4LoopEntered == handler = "v4"

V5LoopEntered ==
    /\ handler = "v5"
    /\ Len(out) >= 2
    /\ pos >= 3 + input[2]
    /\ input[3 + input[2]] = 5

\* the client closed having sent a strict prefix of a valid request frame
EofInV4Frame ==
    /\ V4LoopEntered
    /\ closed
    /\ ValidV4(V4Stream)
    /\ pos - 1 < V4WireLen(V4Stream)

EofInV5Frame ==
    /\ V5LoopEntered
    /\ closed
    /\ ValidV5(V5Stream)
    /\ pos - (3 + input[2]) < V5WireLen(V5Stream)

\* the replies to a request among the buffers written
RequestReplies == IF handler = "v5" THEN Drop(wrote, 1) ELSE wrote

\* C25: the task never returns NeedMoreData; once the read_request loop is
\* over there is a decoded request or the task has returned a Protocol or
\* an I/O error; and when the client closes before a whole request frame
\* was received the task ends with the unexpected-EOF I/O error, with no
\* reply written and no dial made.
C25_ReadLoopOutcomes ==
    /\ ret.kind # "NeedMoreData"
    /\ ((V4LoopEntered /\ pc # "v4_read") \/ (V5LoopEntered /\ pc # "v5_read")) =>
          \/ request.kind = "Ok"
          \/ ret.kind \in {"Protocol", "Io"}
    /\ ((EofInV4Frame \/ EofInV5Frame) /\ pc = "done") =>
          /\ ret = UnexpectedEof
          /\ RequestReplies = <<>>
          /\ connects = <<>>

\* the client closed inside a frame and the loop ended with the EOF error
C25_EofInFrame ==
    /\ EofInV4Frame \/ EofInV5Frame
    /\ request = NeedMoreData
    /\ ret = UnexpectedEof

\* a strict prefix of a valid v4A frame was received, up to the userid's
\* terminator, and the loop ended with the task aborted in the decoder
C25_AbortInFrame ==
    /\ V4LoopEntered
    /\ ValidV4(V4Stream)
    /\ pos - 1 < V4WireLen(V4Stream)
    /\ pc = "done"
    /\ ret = Panic

\* the attempts of the dial whose socket or connection is still there
OpenAttempts == {i \in 1..Len(attempt) : attempt[i] \in {"connecting", "ok", "won"}}

V4Granted == <<0, 90, 0, 0, 0, 0, 0, 0>>

SuccessReply == IF handler = "v4" THEN V4Granted ELSE <<5, 0>> \o V5ReplyOf(0)

\* C27: on a SOCKSv4 or SOCKSv5 connection at most one request reply is
\* written; when it is written the connect of a Connect request has been
\* made and has ended; bytes are copied, in either direction, only when
\* the success reply has reached the client whole; and when the write of
\* the reply fails the task ends without a copied byte and the upstream
\* stream, if there was one, is closed.
C27_ReplyBeforeTunnel ==
    handler \in {"v4", "v5"} =>
        /\ Len(RequestReplies) <= 1
        /\ Len(connects) <= 1
        /\ RequestReplies # <<>> =>
              /\ response # "None"
              /\ request.kind = "Ok"
              /\ request.cmd = "Connect" => Len(connects) = 1
              /\ response \in {"Granted", "Succeeded"} => Len(connects) = 1
        /\ (upstream # <<>> \/ downstream # <<>> \/ pc \in {"v4_splice", "v5_splice"}) =>
              /\ response \in {"Granted", "Succeeded"}
              /\ out = SuccessReply
        /\ (Len(RequestReplies) = 1 /\ Len(out) < Len(SuccessReply)) =>
              /\ pc = "done"
              /\ ret = Io("write")
              /\ upstream = <<>>
              /\ downstream = <<>>
              /\ server \in {"None", "Closed"}

\* the write of a success reply failed: nothing was copied and the
\* upstream stream is closed
C27_Witness ==
    /\ handler \in {"v4", "v5"}
    /\ response \in {"Granted", "Succeeded"}
    /\ Len(RequestReplies) = 1
    /\ ret = Io("write")
    /\ server = "Closed"
    /\ upstream = <<>>
    /\ downstream = <<>>

NothingCopied == h_task.copied = [up |-> 0, down |-> 0]

\* C28: a tunnel task exists only for a CONNECT request whose dial had
\* returned a stream, and the 200 response is made with it; the task has
\* copied bytes only when the upgrade had completed; a task whose upgrade
\* failed has logged the error, copied nothing either way and closed the
\* dialed stream on its end.
C28_ConnectTunnel ==
    /\ [](\A n \in 1..h_served :
            (\E i \in 1..Len(h_resps) :
                /\ h_resps[i].req = n
                /\ h_reqs[n].method = "CONNECT"
                /\ h_resps[i].res.status = 200)
            => /\ \E k \in 1..Len(h_dials) :
                     h_dials[k].req = n /\ h_dials[k].ret.kind = "Ok"
               /\ h_task.pc # "none")
    /\ [](h_task.pc # "none" =>
            /\ h_reqs[h_served].method = "CONNECT"
            /\ h_dials[Len(h_dials)].req = h_served
            /\ h_dials[Len(h_dials)].ret.kind = "Ok"
            /\ h_resps[Len(h_resps)].req = h_served
            /\ h_resps[Len(h_resps)].res.status = 200)
    /\ [](h_task.pc \in {"none", "upgrade"} => NothingCopied /\ h_task.log = <<>>)
    /\ [](~NothingCopied => h_task.pc \in {"copy", "done"} /\ h_task.log = <<>>)
    /\ [](h_task.log # <<>> =>
            /\ h_task.log = <<"Failed to upgrade">>
            /\ h_task.pc = "done"
            /\ NothingCopied)
    /\ [](h_task.pc = "done" => h_task.server = "Closed")
    /\ [][(h_task.pc = "upgrade" /\ h_task'.pc # "copy" /\ h_task' # h_task) =>
            /\ h_task'.pc = "done"
            /\ h_task'.log = <<"Failed to upgrade">>
            /\ h_task'.server = "Closed"
            /\ h_task'.copied = h_task.copied]_vars

\* the upgrade of a CONNECT to a dialed upstream failed: the task logged
\* it and ended with the stream closed and nothing copied
C28_Witness ==
    /\ h_task.pc = "done"
    /\ h_task.log = <<"Failed to upgrade">>
    /\ h_task.server = "Closed"
    /\ NothingCopied
    /\ h_dials[Len(h_dials)].ret.kind = "Ok"
====
